---------------------------- MODULE Spec2Model ----------------------------
(***************************************************************************)
(* A model of scripts/app.py: the apps.toml repository (AppsRepository),   *)
(* the source strategies (BaseSourceService and its subclasses) and the    *)
(* facade commands (AppManagerFacade).                                     *)
(*                                                                         *)
(* Strings that the code compares, folds or sorts (app keys, group names)  *)
(* are sequences of ASCII code points, so that str.lower, str.casefold,    *)
(* str.strip and the ordering of sorted() are computed and not assumed.    *)
(* Strings that the code only passes around (source names, comments) are   *)
(* TLA+ strings.                                                           *)
(***************************************************************************)
EXTENDS Integers, Sequences, FiniteSets, TLC

VARIABLES
    apps_file,   \* the manifest on disk: [exists, doc]
    installed,   \* what each installer reports as installed: source -> set of names
    document,    \* the in-memory tomlkit document of the running operation
    last,        \* record of the most recent operation (arguments, outcome, effects)
    other,       \* a second in-memory document (order-independence runs)
    pending,     \* records still to be added to document / other
    pc,          \* "start" before the command of a CLI run, "done" after it
    service_classes  \* SourceRegistry._service_classes: source name -> class

vars == <<apps_file, installed, document, last, other, pending, pc, service_classes>>

-----------------------------------------------------------------------------
(* Bounds of the model *)

MaxFileRecords == 2   \* records in a manifest file that a command of Spec finds
MaxLoadGroups == 3    \* sections in a manifest file that LoadSpec loads
MaxSyncSize == 3      \* declared records plus installed items that a sync run finds

-----------------------------------------------------------------------------
(* Strings as sequences of code points *)

\* "a", "ab", "b", "B": "b" and "B" fold to the same key, "B" sorts before
\* "a" by code point but after it by str.lower
KeyPool == { <<97>>, <<97, 98>>, <<98>>, <<66>> }

\* group names as typed by the user: "d", "D", " t" and the blank " "
GroupPool == { <<100>>, <<68>>, <<32, 116>>, <<32>> }

\* the registered source names
SourceNames == { "cask", "formula", "uv", "mas" }

\* the sources used where the repository only stores the name
RepoSources == { "cask", "uv" }

\* Python's None, for a str | None that holds a key or group, and for a source
NoneStr == << -1 >>
NoSource == "<None>"

\* descriptions as sequences of lines
DescPool == { <<"x">>, <<"x", "y">> }

\* the description used where only the keys, groups and sources vary
RepoDescs == { <<"x", "y">> }

Range(s) == { s[i] : i \in 1..Len(s) }

\* str.lower / str.casefold on one ASCII character
LowerChar(c) == IF c >= 65 /\ c <= 90 THEN c + 32 ELSE c

lower(s) == [i \in 1..Len(s) |-> LowerChar(s[i])]

IsSpace(c) == c \in {9, 10, 11, 12, 13, 32}

RECURSIVE lstrip(_)
lstrip(s) == IF s # <<>> /\ IsSpace(Head(s)) THEN lstrip(Tail(s)) ELSE s

RECURSIVE rstrip(_)
rstrip(s) ==
    IF s # <<>> /\ IsSpace(s[Len(s)]) THEN rstrip(SubSeq(s, 1, Len(s) - 1)) ELSE s

strip(s) == rstrip(lstrip(s))

\* Python's < on str: lexicographic by code point, a proper prefix is smaller
RECURSIVE StrLess(_, _)
StrLess(s, t) ==
    IF t = <<>> THEN FALSE
    ELSE IF s = <<>> THEN TRUE
    ELSE IF Head(s) # Head(t) THEN Head(s) < Head(t)
    ELSE StrLess(Tail(s), Tail(t))

-----------------------------------------------------------------------------
(* AppsRepository: helpers *)

normalize_key(key) == lower(key)

\* the (name, Table) pairs of the document, in document order
iter_group_tables(doc) == SelectSeq(doc, LAMBDA e : e.isTable)

\* index of the top-level entry called name, 0 when there is none
DocIndex(doc, name) ==
    IF \E i \in 1..Len(doc) : doc[i].name = name
    THEN CHOOSE i \in 1..Len(doc) : doc[i].name = name
    ELSE 0

\* an assignment that puts the section it replaces at the end of the document
DocSet_moves_to_end(doc, name, table) ==
    LET i == DocIndex(doc, name)
        e == [name |-> name, isTable |-> TRUE, table |-> table]
    IN IF i = 0 THEN Append(doc, e)
       ELSE Append(SubSeq(doc, 1, i - 1) \o SubSeq(doc, i + 1, Len(doc)), e)

\* document[name] = table: replaces in place, or appends a new section
DocSet(doc, name, table) ==
    LET i == DocIndex(doc, name)
        e == [name |-> name, isTable |-> TRUE, table |-> table]
    IN IF i = 0 THEN Append(doc, e) ELSE [doc EXCEPT ![i] = e]

\* del document[name]
DocDel(doc, name) ==
    LET i == DocIndex(doc, name)
    IN SubSeq(doc, 1, i - 1) \o SubSeq(doc, i + 1, Len(doc))

\* a resolve_group_name that does not look at the existing groups
resolve_group_name_verbatim(doc, group) ==
    IF strip(group) = <<>> THEN [err |-> "Group name cannot be empty.", name |-> <<>>]
    ELSE [err |-> "", name |-> strip(group)]

resolve_group_name(doc, group) ==
    LET resolved == strip(group)
        tables == iter_group_tables(doc)
        \* by_norm is a dict: a later group with the same folded name wins
        hits == { i \in 1..Len(tables) :
                    normalize_key(tables[i].name) = normalize_key(resolved) }
    IN IF resolved = <<>> THEN [err |-> "Group name cannot be empty.", name |-> <<>>]
       ELSE IF hits = {} THEN [err |-> "", name |-> resolved]
       ELSE [err |-> "",
             name |-> tables[CHOOSE i \in hits : \A j \in hits : j <= i].name]

\* " ".join(comment.splitlines()), on a comment given as its lines
RECURSIVE sanitize_toml_inline_comment(_)
sanitize_toml_inline_comment(comment) ==
    IF comment = <<>> THEN ""
    ELSE IF Len(comment) = 1 THEN comment[1]
    ELSE comment[1] \o " " \o sanitize_toml_inline_comment(Tail(comment))

\* a sort key that forgets .lower()
SortKeyRaw(item) == item.key

\* the sort key of sorted_table: lambda item: item[0].lower()
SortKeyLower(item) == lower(item.key)

\* one step of sorted(): Python's sort is stable, so an item goes after every
\* item whose sort key is not greater than its own

RECURSIVE InsertByKey(_, _)
InsertByKey(sortedItems, item) ==
    IF sortedItems = <<>> THEN <<item>>
    ELSE IF StrLess(SortKeyLower(item), SortKeyLower(Head(sortedItems)))
         THEN <<item>> \o sortedItems
         ELSE <<Head(sortedItems)>> \o InsertByKey(Tail(sortedItems), item)

RECURSIVE SortItems(_, _)
SortItems(acc, items) ==
    IF items = <<>> THEN acc
    ELSE SortItems(InsertByKey(acc, Head(items)), Tail(items))

\* a table built in insertion order, without sorted()
sorted_table_unsorted(items) == items

sorted_table(items) == SortItems(<<>>, items)

\* an upsert that never finds the key
upsert_value_always_appends(table, key, value) ==
    LET item == [key |-> key, value |-> value.value, comment |-> value.comment]
    IN [table |-> sorted_table(Append(table, item)), existed |-> FALSE]

\* an upsert that replaces a stored key but reports it as new
upsert_value_reports_no_update(table, key, value) ==
    LET hits == { i \in 1..Len(table) : table[i].key = key }
        item == [key |-> key, value |-> value.value, comment |-> value.comment]
    IN IF hits # {}
       THEN [table |-> sorted_table([table EXCEPT ![CHOOSE i \in hits : TRUE] = item]),
             existed |-> FALSE]
       ELSE [table |-> sorted_table(Append(table, item)), existed |-> FALSE]

upsert_value(table, key, value) ==
    LET hits == { i \in 1..Len(table) : table[i].key = key }
        item == [key |-> key, value |-> value.value, comment |-> value.comment]
    IN IF hits # {}
       THEN [table |-> sorted_table([table EXCEPT ![CHOOSE i \in hits : TRUE] = item]),
             existed |-> TRUE]
       ELSE [table |-> sorted_table(Append(table, item)), existed |-> FALSE]

NoRecord == [found |-> FALSE, group |-> <<>>, key |-> <<>>, source |-> "", description |-> ""]

\* all records of the document in iteration order (group by group)
RECURSIVE AllRecords(_)
AllRecords(tables) ==
    IF tables = <<>> THEN <<>>
    ELSE [i \in 1..Len(Head(tables).table) |->
            [found |-> TRUE,
             group |-> Head(tables).name,
             key |-> Head(tables).table[i].key,
             source |-> Head(tables).table[i].value,
             description |-> Head(tables).table[i].comment]]
         \o AllRecords(Tail(tables))

list_records(doc) == AllRecords(iter_group_tables(doc))

\* a lookup that compares the keys as written
find_app_exact(doc, app) ==
    LET recs == list_records(doc)
        hits == { i \in 1..Len(recs) : recs[i].key = app }
    IN IF hits = {} THEN NoRecord
       ELSE recs[CHOOSE i \in hits : \A j \in hits : i <= j]

find_app(doc, app) ==
    LET recs == list_records(doc)
        hits == { i \in 1..Len(recs) : normalize_key(recs[i].key) = normalize_key(app) }
    IN IF hits = {} THEN NoRecord
       ELSE recs[CHOOSE i \in hits : \A j \in hits : i <= j]

\* a removal that reports success and leaves the record where it is
remove_app_from_group_leaves_record(doc, group, app_key) == [removed |-> TRUE, doc |-> doc]

\* a removal that leaves the emptied section in the document
remove_app_from_group_keeps_section(doc, group, app_key) ==
    LET i == DocIndex(doc, group)
    IN IF i = 0 \/ ~doc[IF i = 0 THEN 1 ELSE i].isTable
       THEN [removed |-> FALSE, doc |-> doc]
       ELSE IF ~\E j \in 1..Len(doc[i].table) : doc[i].table[j].key = app_key
       THEN [removed |-> FALSE, doc |-> doc]
       ELSE LET items == SelectSeq(doc[i].table, LAMBDA it : it.key # app_key)
            IN [removed |-> TRUE, doc |-> DocSet(doc, group, sorted_table(items))]

remove_app_from_group(doc, group, app_key) ==
    LET i == DocIndex(doc, group)
    IN IF i = 0 \/ ~doc[IF i = 0 THEN 1 ELSE i].isTable
       THEN [removed |-> FALSE, doc |-> doc]
       ELSE IF ~\E j \in 1..Len(doc[i].table) : doc[i].table[j].key = app_key
       THEN [removed |-> FALSE, doc |-> doc]
       ELSE LET items == SelectSeq(doc[i].table, LAMBDA it : it.key # app_key)
            IN IF items = <<>>
               THEN [removed |-> TRUE, doc |-> DocDel(doc, group)]
               ELSE [removed |-> TRUE, doc |-> DocSet(doc, group, sorted_table(items))]

\* the fold of validate_no_duplicates over the keys of every table, in order;
\* seen, keys_by_norm and groups_by_norm are kept as sets of <<norm, x>> pairs
\* a scan that records only the group of the repeated occurrence
RECURSIVE ScanDuplicatesLaterOnly(_, _)
ScanDuplicatesLaterOnly(recs, st) ==
    IF recs = <<>> THEN st
    ELSE LET r == Head(recs)
             norm == normalize_key(r.key)
             keys2 == st.keys_by_norm \cup { <<norm, r.key>> }
             isSeen == \E s \in st.seen : s[1] = norm
             first_group == (CHOOSE s \in st.seen : s[1] = norm)[2]
         IN ScanDuplicatesLaterOnly(Tail(recs),
              IF isSeen
              THEN IF first_group # r.group
                   THEN [st EXCEPT !.keys_by_norm = keys2,
                                   !.groups_by_norm = @ \cup { <<norm, r.group>> }]
                   ELSE [st EXCEPT !.keys_by_norm = keys2]
              ELSE [st EXCEPT !.keys_by_norm = keys2,
                              !.seen = @ \cup { <<norm, r.group>> }])

RECURSIVE ScanDuplicates(_, _)
ScanDuplicates(recs, st) ==
    IF recs = <<>> THEN st
    ELSE LET r == Head(recs)
             norm == normalize_key(r.key)
             keys2 == st.keys_by_norm \cup { <<norm, r.key>> }
             isSeen == \E s \in st.seen : s[1] = norm
             first_group == (CHOOSE s \in st.seen : s[1] = norm)[2]
         IN ScanDuplicates(Tail(recs),
              IF isSeen
              THEN IF first_group # r.group
                   THEN [st EXCEPT !.keys_by_norm = keys2,
                                   !.groups_by_norm =
                                       @ \cup { <<norm, first_group>>, <<norm, r.group>> }]
                   ELSE [st EXCEPT !.keys_by_norm = keys2]
              ELSE [st EXCEPT !.keys_by_norm = keys2,
                              !.seen = @ \cup { <<norm, r.group>> }])

\* raised |-> TRUE stands for the AppManagerError; lines are its "- keys appears
\* in groups" lines, one per folded key
validate_no_duplicates(doc) ==
    LET st == ScanDuplicates(list_records(doc),
                  [seen |-> {}, keys_by_norm |-> {}, groups_by_norm |-> {}])
        norms == { p[1] : p \in st.groups_by_norm }
    IN [raised |-> st.groups_by_norm # {},
        lines |-> { [norm |-> n,
                     keys |-> { p[2] : p \in { q \in st.keys_by_norm : q[1] = n } },
                     groups |-> { p[2] : p \in { q \in st.groups_by_norm : q[1] = n } }]
                    : n \in norms }]

NoOutcome ==
    [app_key |-> NoneStr, group |-> NoneStr, description |-> <<>>, existed |-> FALSE,
     moved_from |-> NoneStr, previous_source |-> NoSource]

add_or_update(doc, app, source, group, description) ==
    LET existing == find_app(doc, app)
        rg == resolve_group_name(doc, group)
        target_group == rg.name
        canonical_key == IF existing.found THEN existing.key ELSE app
        previous_source == IF existing.found THEN existing.source ELSE NoSource
        moving == existing.found /\ existing.group # target_group
        rm == IF moving
              THEN remove_app_from_group(doc, existing.group, existing.key)
              ELSE [removed |-> TRUE, doc |-> doc]
        moved_from == IF moving THEN existing.group ELSE NoneStr
        doc1 == rm.doc
        gi == DocIndex(doc1, target_group)
        doc2 == IF gi = 0 THEN DocSet(doc1, target_group, <<>>) ELSE doc1
        entry == doc2[DocIndex(doc2, target_group)]
        value == [value |-> source, comment |-> sanitize_toml_inline_comment(description)]
        up == upsert_value(entry.table, canonical_key, value)
    IN IF rg.err # ""
       THEN [err |-> rg.err, doc |-> doc, outcome |-> NoOutcome]
       ELSE IF ~rm.removed
       THEN [err |-> "could not be removed", doc |-> doc, outcome |-> NoOutcome]
       ELSE IF ~entry.isTable
       THEN [err |-> "Section is not a table in apps.toml.", doc |-> doc2,
             outcome |-> NoOutcome]
       ELSE [err |-> "",
             doc |-> DocSet(doc2, target_group, up.table),
             outcome |-> [app_key |-> canonical_key,
                          group |-> target_group,
                          description |-> description,
                          existed |-> up.existed,
                          moved_from |-> moved_from,
                          previous_source |-> previous_source]]

NotRemoved == [removed |-> FALSE, app_key |-> NoneStr, source |-> NoSource, group |-> NoneStr]

\* a remove that reports the key it was asked for, not the stored one
remove_reports_argument(doc, app) ==
    LET existing == find_app(doc, app)
        rm == remove_app_from_group(doc, existing.group, existing.key)
    IN IF ~existing.found THEN [doc |-> doc, outcome |-> NotRemoved]
       ELSE IF ~rm.removed THEN [doc |-> doc, outcome |-> NotRemoved]
       ELSE [doc |-> rm.doc,
             outcome |-> [removed |-> TRUE, app_key |-> app,
                          source |-> existing.source, group |-> existing.group]]

remove(doc, app) ==
    LET existing == find_app(doc, app)
        rm == remove_app_from_group(doc, existing.group, existing.key)
    IN IF ~existing.found THEN [doc |-> doc, outcome |-> NotRemoved]
       ELSE IF ~rm.removed THEN [doc |-> doc, outcome |-> NotRemoved]
       ELSE [doc |-> rm.doc,
             outcome |-> [removed |-> TRUE, app_key |-> existing.key,
                          source |-> existing.source, group |-> existing.group]]

-----------------------------------------------------------------------------
(* AppsRepository: load and save.  A file is [exists, doc]; doc is what     *)
(* tomlkit.parse returns for its text.                                      *)

\* the possible result of load(): the document, the file as load leaves it, and
\* the duplicate report when validation raised; a file with the field
\* malformed holds text that tomlkit.parse rejects
load_absent_writes_nothing(file) ==
    IF ~file.exists
    THEN [raised |-> FALSE, lines |-> {}, doc |-> <<>>, created |-> FALSE, file |-> file]
    ELSE IF "malformed" \in DOMAIN file
    THEN [raised |-> TRUE, lines |-> {}, doc |-> <<>>, created |-> FALSE, file |-> file]
    ELSE LET v == validate_no_duplicates(file.doc)
         IN [raised |-> v.raised, lines |-> v.lines, doc |-> file.doc,
             created |-> FALSE, file |-> file]

load(file) ==
    IF ~file.exists
    THEN [raised |-> FALSE, lines |-> {}, doc |-> <<>>, created |-> TRUE,
          file |-> [exists |-> TRUE, doc |-> <<>>]]
    ELSE IF "malformed" \in DOMAIN file
    THEN [raised |-> TRUE, lines |-> {}, doc |-> <<>>, created |-> FALSE, file |-> file]
    ELSE LET v == validate_no_duplicates(file.doc)
         IN [raised |-> v.raised, lines |-> v.lines, doc |-> file.doc,
             created |-> FALSE, file |-> file]

save(doc) == [exists |-> TRUE, doc |-> doc]

-----------------------------------------------------------------------------
(* SourceRegistry.  _service_classes is a dict, kept as the sequence of its *)
(* items in insertion order; a class is [cls, source_name].                 *)

ServiceClass(cls, source_name) == [cls |-> cls, source_name |-> source_name]

\* source_names(): the keys of the dict
source_names(classes) == { classes[i].source_name : i \in 1..Len(classes) }

\* a register that lets a later class take over the name
register_overwrites(classes, service_cls) ==
    IF service_cls.source_name = "" THEN [raised |-> FALSE, classes |-> classes]
    ELSE IF service_cls.source_name \in source_names(classes)
    THEN [raised |-> FALSE,
          classes |-> [i \in 1..Len(classes) |->
                         IF classes[i].source_name = service_cls.source_name
                         THEN service_cls ELSE classes[i]]]
    ELSE [raised |-> FALSE, classes |-> Append(classes, service_cls)]

\* register, as __init_subclass__ calls it for every new subclass
register(classes, service_cls) ==
    IF service_cls.source_name = "" THEN [raised |-> FALSE, classes |-> classes]
    ELSE IF service_cls.source_name \in source_names(classes)
    THEN [raised |-> TRUE, classes |-> classes]
    ELSE [raised |-> FALSE, classes |-> Append(classes, service_cls)]

\* create: the class registered under the source, or `Unknown source`
create(classes, source) ==
    IF source \in source_names(classes)
    THEN [raised |-> FALSE,
          cls |-> classes[CHOOSE i \in 1..Len(classes) : classes[i].source_name = source].cls]
    ELSE [raised |-> TRUE, cls |-> "None"]

\* the subclasses of BaseSourceService that the module defines, in order
ModuleClasses ==
    << ServiceClass("BrewSourceService", ""),
       ServiceClass("BrewCaskSourceService", "cask"),
       ServiceClass("BrewFormulaSourceService", "formula"),
       ServiceClass("UvSourceService", "uv"),
       ServiceClass("MasSourceService", "mas") >>

\* the registry once the module is imported
RECURSIVE import_module(_, _)
import_module(classes, statements) ==
    IF statements = <<>> THEN classes
    ELSE import_module(register(classes, Head(statements)).classes, Tail(statements))

Registered == import_module(<<>>, ModuleClasses)

-----------------------------------------------------------------------------
(* Source strategies.  installed[source] is the set of <<identifier, name>> *)
(* pairs that the installer's list command prints.  An external command    *)
(* either exits with status zero or it does not, so an operation that runs *)
(* one is a set of possible outcomes.                                      *)

BrewSources == { "cask", "formula" }

\* app.rsplit("/", 1)[-1]
RECURSIVE LastSegment(_)
LastSegment(app) ==
    IF 47 \in Range(app) THEN LastSegment(Tail(app)) ELSE app

\* aliases that are the key alone
managed_aliases_key_only(source, app) == { app }

managed_aliases(source, app) ==
    IF source \in BrewSources THEN { app, LastSegment(app) } ELSE { app }

OperationOk(message) == [success |-> TRUE, skipped |-> FALSE, message |-> message]
OperationSkipped(message) == [success |-> TRUE, skipped |-> TRUE, message |-> message]
OperationFailed(message) == [success |-> FALSE, skipped |-> FALSE, message |-> message]
NoResult == [success |-> FALSE, skipped |-> FALSE, message |-> "<None>"]

\* an is_installed that looks for the app as written among the identifiers
is_installed_exact(source, app, listed) == app \in { e[1] : e \in listed }

\* is_installed, given the mapping that list_installed returned
is_installed(source, app, listed) ==
    LET aliases == { lower(alias) : alias \in managed_aliases(source, app) }
        installed_tokens == { lower(e[1]) : e \in listed } \cup { lower(e[2]) : e \in listed }
    IN aliases \cap installed_tokens # {}

\* what the installer lists after a successful install / uninstall of app
\* where the machine state also tells which formulae `brew leaves` prints (the
\* installed formulae that no other installed formula depends on), a formula
\* installed on request is a leaf and an uninstalled one is none
Leaves == "leaves"

AfterInstall(source, app, inst) ==
    LET name == IF source \in BrewSources THEN LastSegment(app) ELSE app
        listed == [inst EXCEPT ![source] = @ \cup { <<name, name>> }]
    IN IF source = "formula" /\ Leaves \in DOMAIN inst
       THEN [listed EXCEPT ![Leaves] = @ \cup { <<name, name>> }]
       ELSE listed

AfterUninstall(source, app, inst) ==
    LET listed == [inst EXCEPT ![source] = { e \in @ : ~is_installed(source, app, {e}) }]
    IN IF source = "formula" /\ Leaves \in DOMAIN inst
       THEN [listed EXCEPT ![Leaves] = { e \in @ : ~is_installed(source, app, {e}) }]
       ELSE listed

Event(ev, source, app, ok) == [ev |-> ev, source |-> source, app |-> app, ok |-> ok]

\* list_installed: the listing, or the AppManagerError of a failed command
list_installed(source, inst) ==
    { [raised |-> FALSE, listed |-> inst[source]],
      [raised |-> TRUE, listed |-> {}] }

\* install: runner.run raises on a non-zero exit
install(source, app, inst) ==
    { [raised |-> FALSE, installed |-> AfterInstall(source, app, inst)],
      [raised |-> TRUE, installed |-> inst] }

\* uninstall: brew and uv raise on a non-zero exit, mas returns a failed result
uninstall(source, app, inst) ==
    { [raised |-> FALSE, result |-> OperationOk(""),
       installed |-> AfterUninstall(source, app, inst)] }
    \cup
    ( IF source = "mas"
      THEN { [raised |-> FALSE,
              result |-> OperationFailed("Failed to uninstall. Please uninstall it manually."),
              installed |-> inst] }
      ELSE { [raised |-> TRUE, result |-> NoResult, installed |-> inst] } )

\* get_macos_only_formulas: nothing is asked about an empty list; otherwise
\* `brew info` is run without check, and whatever it prints yields the names
\* (full name and name) of some of the formulae asked about; a missing brew
\* executable raises before the command is run
get_macos_only_formulas(formula_list) ==
    IF formula_list = <<>>
    THEN { [raised |-> FALSE, macos_only |-> {}, events |-> <<>>] }
    ELSE { [raised |-> FALSE,
            macos_only |-> UNION { { f, LastSegment(f) } : f \in F },
            events |-> << Event("info", "formula", <<>>, TRUE) >>]
           : F \in SUBSET Range(formula_list) }
         \cup { [raised |-> TRUE, macos_only |-> {},
                 events |-> << Event("info", "formula", <<>>, FALSE) >>] }

\* BrewFormulaSourceService.prime_linux_skip_cache, given platform.system()
\* and the instance's _linux_macos_only_cache
prime_linux_skip_cache(system, cache, formulae) ==
    IF system = "Darwin"
    THEN { [raised |-> FALSE, cache |-> cache, events |-> <<>>] }
    ELSE { [raised |-> g.raised, cache |-> IF g.raised THEN cache ELSE g.macos_only,
            events |-> g.events]
           : g \in get_macos_only_formulas(formulae) }

\* BrewFormulaSourceService.pre_install_check: `cache or lookup([app])` asks
\* brew whenever the cache is the empty set
BrewFormula_pre_install_check(system, cache, app) ==
    IF system = "Darwin"
    THEN { [raised |-> FALSE, none |-> TRUE, result |-> NoResult, events |-> <<>>] }
    ELSE LET lookups == IF cache # {}
                        THEN { [raised |-> FALSE, macos_only |-> cache, events |-> <<>>] }
                        ELSE get_macos_only_formulas(<< app >>)
         IN { IF g.raised
              THEN [raised |-> TRUE, none |-> TRUE, result |-> NoResult, events |-> g.events]
              ELSE IF app \in g.macos_only \/ LastSegment(app) \in g.macos_only
              THEN [raised |-> FALSE, none |-> FALSE,
                    result |-> OperationSkipped("Skipping (macOS only)"),
                    events |-> g.events]
              ELSE [raised |-> FALSE, none |-> TRUE, result |-> NoResult,
                    events |-> g.events]
              : g \in lookups }

\* pre_install_check as its caller ensure_installed sees it, which has just
\* listed the installed apps (so brew is on the PATH) and knows neither the
\* platform nor what the instance's cache holds: None, or for a formula the
\* skip result
pre_install_check(source, app) ==
    IF source = "formula"
    THEN { [none |-> r.none, result |-> r.result]
           : r \in { q \in UNION { BrewFormula_pre_install_check(system, cache, app)
                                    : system \in { "Darwin", "Linux" },
                                      cache \in SUBSET { app, LastSegment(app) } }
                      : ~q.raised } }
    ELSE { [none |-> TRUE, result |-> NoResult] }

Raised(inst, events) ==
    [raised |-> TRUE, result |-> NoResult, installed |-> inst, events |-> events]

Returned(result, inst, events) ==
    [raised |-> FALSE, result |-> result, installed |-> inst, events |-> events]

\* an ensure_installed that asks pre_install_check before it asks is_installed
ensure_installed_checks_platform_first(source, app, inst) ==
    UNION { IF ~pre.none
            THEN { Returned(pre.result, inst, <<>>) @@ [preflight |-> [consulted |-> TRUE] @@ pre] }
            ELSE UNION { IF l.raised
                         THEN { Raised(inst, << Event("list", source, app, FALSE) >>)
                                  @@ [preflight |-> [consulted |-> TRUE] @@ pre] }
                         ELSE IF is_installed(source, app, l.listed)
                         THEN { Returned(OperationSkipped("is already installed"), inst,
                                         << Event("list", source, app, TRUE) >>)
                                  @@ [preflight |-> [consulted |-> TRUE] @@ pre] }
                         ELSE { ( IF i.raised
                                  THEN Raised(inst, << Event("list", source, app, TRUE),
                                                       Event("install", source, app, FALSE) >>)
                                  ELSE Returned(OperationOk("Installed"), i.installed,
                                                << Event("list", source, app, TRUE),
                                                   Event("install", source, app, TRUE) >>) )
                                  @@ [preflight |-> [consulted |-> TRUE] @@ pre]
                                : i \in install(source, app, inst) }
                         : l \in list_installed(source, inst) }
            : pre \in pre_install_check(source, app) }

\* preflight tells whether the call consulted pre_install_check and what it returned
ensure_installed(source, app, inst) ==
    UNION { IF l.raised
            THEN { Raised(inst, << Event("list", source, app, FALSE) >>)
                     @@ [preflight |-> [consulted |-> FALSE]] }
            ELSE IF is_installed(source, app, l.listed)
            THEN { Returned(OperationSkipped("is already installed"), inst,
                            << Event("list", source, app, TRUE) >>)
                     @@ [preflight |-> [consulted |-> FALSE]] }
            ELSE UNION { IF ~pre.none
                         THEN { Returned(pre.result, inst,
                                         << Event("list", source, app, TRUE) >>)
                                  @@ [preflight |-> [consulted |-> TRUE] @@ pre] }
                         ELSE { ( IF i.raised
                                  THEN Raised(inst, << Event("list", source, app, TRUE),
                                                       Event("install", source, app, FALSE) >>)
                                  ELSE Returned(OperationOk("Installed"), i.installed,
                                                << Event("list", source, app, TRUE),
                                                   Event("install", source, app, TRUE) >>) )
                                  @@ [preflight |-> [consulted |-> TRUE] @@ pre]
                                : i \in install(source, app, inst) }
                         : pre \in pre_install_check(source, app) }
            : l \in list_installed(source, inst) }

ensure_uninstalled(source, app, inst) ==
    UNION { IF l.raised
            THEN { Raised(inst, << Event("list", source, app, FALSE) >>) }
            ELSE IF ~is_installed(source, app, l.listed)
            THEN { Returned(OperationSkipped("is not installed; skipping uninstall"), inst,
                            << Event("list", source, app, TRUE) >>) }
            ELSE { IF u.raised
                   THEN Raised(inst, << Event("list", source, app, TRUE),
                                        Event("uninstall", source, app, FALSE) >>)
                   ELSE IF u.result.success /\ ~u.result.skipped
                   THEN Returned(OperationOk("Uninstalled"), u.installed,
                                 << Event("list", source, app, TRUE),
                                    Event("uninstall", source, app, TRUE) >>)
                   ELSE Returned(u.result, u.installed,
                                 << Event("list", source, app, TRUE),
                                    Event("uninstall", source, app, FALSE) >>)
                   : u \in uninstall(source, app, inst) }
            : l \in list_installed(source, inst) }

-----------------------------------------------------------------------------
(* AppManagerFacade: one CLI run executes one command on the manifest file *)
(* and the installers as it finds them.                                    *)

NoFile == [exists |-> FALSE, doc |-> <<>>]
NothingInstalled == [s \in SourceNames |-> {}]
NoCall == [op |-> "none"]

SaveEvent == Event("save", "", <<>>, TRUE)

\* _infer_description: the stripped --description, or for a source other than uv
\* the description that the installer's info command reports, if it reports one
infer_description(source, app, description) ==
    IF source = "uv" /\ description = <<>>
    THEN { [raised |-> TRUE, description |-> <<>>] }
    ELSE IF description # <<>>
    THEN { [raised |-> FALSE, description |-> description] }
    ELSE { [raised |-> FALSE, description |-> << "info" >>],
           [raised |-> TRUE, description |-> <<>>] }

CommandError(stage, file, inst, doc, outcome, events) ==
    [result |-> "error", stage |-> stage, file |-> file, installed |-> inst,
     document |-> doc, outcome |-> outcome, events |-> events]

CommandOk(file, inst, doc, outcome, events) ==
    [result |-> "ok", stage |-> "end", file |-> file, installed |-> inst,
     document |-> doc, outcome |-> outcome, events |-> events]

\* standard input: whether it is a terminal, and the lines that input() will
\* return before it raises EOFError
Stdin(isatty, lines) == [isatty |-> isatty, lines |-> lines]
NoStdin == Stdin(FALSE, <<>>)

InputEvent(ok) == Event("input", "stdin", <<>>, ok)

Picked(err, name, events) == [err |-> err, name |-> name, events |-> events]

\* str.isdigit and int for ASCII digits
isdigit(s) == s # <<>> /\ \A i \in 1..Len(s) : s[i] \in 48..57

RECURSIVE int(_)
int(s) == IF s = <<>> THEN 0 ELSE 10 * int(SubSeq(s, 1, Len(s) - 1)) + (s[Len(s)] - 48)

\* prompt_non_empty: input() until a line is not blank; EOFError ends it
RECURSIVE prompt_non_empty(_, _)
prompt_non_empty(lines, events) ==
    IF lines = <<>>
    THEN [err |-> "No group selected.", value |-> <<>>,
          events |-> Append(events, InputEvent(FALSE))]
    ELSE IF strip(Head(lines)) # <<>>
    THEN [err |-> "", value |-> strip(Head(lines)), events |-> Append(events, InputEvent(TRUE))]
    ELSE prompt_non_empty(Tail(lines), Append(events, InputEvent(TRUE)))

\* the new-group branch: resolve_group_name of what prompt_non_empty returns
new_group(doc, lines, events) ==
    LET p == prompt_non_empty(lines, events)
        rg == resolve_group_name(doc, p.value)
    IN IF p.err # "" THEN Picked(p.err, <<>>, p.events) ELSE Picked(rg.err, rg.name, p.events)

\* the selection loop of pick_group_interactively over the listed groups
RECURSIVE select_group(_, _, _, _)
select_group(doc, groups, lines, events) ==
    IF lines = <<>>
    THEN Picked("No group selected.", <<>>, Append(events, InputEvent(FALSE)))
    ELSE LET choice == strip(Head(lines))
             read == Append(events, InputEvent(TRUE))
             matches == { i \in 1..Len(groups) : normalize_key(groups[i]) = normalize_key(choice) }
             rg == resolve_group_name(doc, choice)
         IN IF choice = <<>> THEN select_group(doc, groups, Tail(lines), read)
            ELSE IF isdigit(choice)
            THEN IF int(choice) = 0 THEN new_group(doc, Tail(lines), read)
                 ELSE IF int(choice) <= Len(groups) THEN Picked("", groups[int(choice)], read)
                 ELSE select_group(doc, groups, Tail(lines), read)
            ELSE IF matches # {}
            THEN Picked("", groups[CHOOSE i \in matches : \A j \in matches : j <= i], read)
            ELSE Picked(rg.err, rg.name, read)

pick_group_interactively(doc, stdin) ==
    LET tables == iter_group_tables(doc)
        groups == [i \in 1..Len(tables) |-> tables[i].name]
    IN IF ~stdin.isatty
       THEN Picked("No --group/-g provided and stdin is not interactive.", <<>>, <<>>)
       ELSE IF groups = <<>> THEN new_group(doc, stdin.lines, <<>>)
       ELSE select_group(doc, groups, stdin.lines, <<>>)

\* _resolve_or_pick_group: a --group that is not empty is resolved, without
\* one the group is picked
resolve_or_pick_group(doc, group, stdin) ==
    LET rg == resolve_group_name(doc, group)
    IN IF group # <<>> THEN Picked(rg.err, rg.name, <<>>)
       ELSE pick_group_interactively(doc, stdin)

\* an install phase that uninstalls through the previous source whenever the
\* entry existed
install_phase_uninstalls_unchanged(outcome, source, inst) ==
    LET uninstalls ==
            IF outcome.previous_source \notin { NoSource, "" }
            THEN { [raised |-> u.raised, failed |-> ~u.raised /\ ~u.result.success,
                    installed |-> u.installed, events |-> u.events]
                   : u \in ensure_uninstalled(outcome.previous_source, outcome.app_key, inst) }
            ELSE { [raised |-> FALSE, failed |-> FALSE, installed |-> inst, events |-> <<>>] }
    IN UNION { IF u.raised
               THEN { [failed |-> TRUE, installed |-> u.installed, events |-> u.events] }
               ELSE { [failed |-> u.failed \/ i.raised \/ ~i.result.success,
                       installed |-> i.installed,
                       events |-> u.events \o i.events]
                      : i \in ensure_installed(source, outcome.app_key, u.installed) }
               : u \in uninstalls }

\* the install phase of add_app (the try block): the previous source's
\* ensure_uninstalled when the source changed, then ensure_installed; failed
\* tells whether failure_message is set when the block is left
install_phase(outcome, source, inst) ==
    LET source_changed ==
            /\ outcome.previous_source \notin { NoSource, "" }
            /\ outcome.previous_source # source
        uninstalls ==
            IF source_changed
            THEN { [raised |-> u.raised, failed |-> ~u.raised /\ ~u.result.success,
                    installed |-> u.installed, events |-> u.events]
                   : u \in ensure_uninstalled(outcome.previous_source, outcome.app_key, inst) }
            ELSE { [raised |-> FALSE, failed |-> FALSE, installed |-> inst, events |-> <<>>] }
    IN UNION { IF u.raised
               THEN { [failed |-> TRUE, installed |-> u.installed, events |-> u.events] }
               ELSE { [failed |-> u.failed \/ i.raised \/ ~i.result.success,
                       installed |-> i.installed,
                       events |-> u.events \o i.events]
                      : i \in ensure_installed(source, outcome.app_key, u.installed) }
               : u \in uninstalls }

\* an add that saves the manifest before the install phase
add_app_saves_first(file, inst, app, source, group, description, no_install, stdin) ==
    LET ld == load(file)
        selected == resolve_or_pick_group(ld.doc, group, stdin)
    IN IF ld.raised
       THEN { CommandError("load", ld.file, inst, ld.doc, NoOutcome, <<>>) }
       ELSE IF selected.err # ""
       THEN { CommandError("group", ld.file, inst, ld.doc, NoOutcome, selected.events) }
       ELSE UNION {
         IF d.raised
         THEN { CommandError("description", ld.file, inst, ld.doc, NoOutcome,
                             selected.events) }
         ELSE LET r == add_or_update(ld.doc, app, source, selected.name, d.description)
              IN IF r.err # ""
                 THEN { CommandError("repository", ld.file, inst, r.doc, NoOutcome,
                                     selected.events) }
                 ELSE { IF ph.failed
                        THEN CommandError("install", save(r.doc), ph.installed, r.doc,
                                          r.outcome,
                                          Append(selected.events, SaveEvent) \o ph.events)
                        ELSE CommandOk(save(r.doc), ph.installed, r.doc, r.outcome,
                                       Append(selected.events, SaveEvent) \o ph.events)
                        : ph \in IF no_install
                                 THEN { [failed |-> FALSE, installed |-> inst, events |-> <<>>] }
                                 ELSE install_phase(r.outcome, source, inst) }
         : d \in infer_description(source, app, description) }

\* an add that with --no-install still uninstalls through the previous source
\* when the source changed
add_app_no_install_uninstalls_previous(file, inst, app, source, group, description, no_install, stdin) ==
    LET ld == load(file)
        selected == resolve_or_pick_group(ld.doc, group, stdin)
    IN IF ld.raised
       THEN { CommandError("load", ld.file, inst, ld.doc, NoOutcome, <<>>) }
       ELSE IF selected.err # ""
       THEN { CommandError("group", ld.file, inst, ld.doc, NoOutcome, selected.events) }
       ELSE UNION {
         IF d.raised
         THEN { CommandError("description", ld.file, inst, ld.doc, NoOutcome,
                             selected.events) }
         ELSE LET r == add_or_update(ld.doc, app, source, selected.name, d.description)
              IN IF r.err # ""
                 THEN { CommandError("repository", ld.file, inst, r.doc, NoOutcome,
                                     selected.events) }
                 ELSE IF no_install /\ r.outcome.previous_source \in { NoSource, source }
                 THEN { CommandOk(save(r.doc), inst, r.doc, r.outcome,
                                  Append(selected.events, SaveEvent)) }
                 ELSE IF no_install
                 THEN { IF u.raised
                        THEN CommandError("install", ld.file, u.installed, r.doc,
                                          r.outcome, selected.events \o u.events)
                        ELSE CommandOk(save(r.doc), u.installed, r.doc, r.outcome,
                                       Append(selected.events \o u.events, SaveEvent))
                        : u \in ensure_uninstalled(r.outcome.previous_source,
                                                   r.outcome.app_key, inst) }
                 ELSE { IF ph.failed
                        THEN CommandError("install", ld.file, ph.installed, r.doc,
                                          r.outcome, selected.events \o ph.events)
                        ELSE CommandOk(save(r.doc), ph.installed, r.doc, r.outcome,
                                       Append(selected.events \o ph.events, SaveEvent))
                        : ph \in install_phase(r.outcome, source, inst) }
         : d \in infer_description(source, app, description) }

\* an add that writes the document back when add_or_update raised
add_app_keeps_partial_update(file, inst, app, source, group, description, no_install, stdin) ==
    LET ld == load(file)
        selected == resolve_or_pick_group(ld.doc, group, stdin)
    IN IF ld.raised
       THEN { CommandError("load", ld.file, inst, ld.doc, NoOutcome, <<>>) }
       ELSE IF selected.err # ""
       THEN { CommandError("group", ld.file, inst, ld.doc, NoOutcome, selected.events) }
       ELSE UNION {
         IF d.raised
         THEN { CommandError("description", ld.file, inst, ld.doc, NoOutcome,
                             selected.events) }
         ELSE LET r == add_or_update(ld.doc, app, source, selected.name, d.description)
              IN IF r.err # ""
                 THEN { CommandError("repository", save(r.doc), inst, r.doc, NoOutcome,
                                     Append(selected.events, SaveEvent)) }
                 ELSE IF no_install
                 THEN { CommandOk(save(r.doc), inst, r.doc, r.outcome,
                                  Append(selected.events, SaveEvent)) }
                 ELSE { IF ph.failed
                        THEN CommandError("install", ld.file, ph.installed, r.doc,
                                          r.outcome, selected.events \o ph.events)
                        ELSE CommandOk(save(r.doc), ph.installed, r.doc, r.outcome,
                                       Append(selected.events \o ph.events, SaveEvent))
                        : ph \in install_phase(r.outcome, source, inst) }
         : d \in infer_description(source, app, description) }

add_app(file, inst, app, source, group, description, no_install, stdin) ==
    LET ld == load(file)
        selected == resolve_or_pick_group(ld.doc, group, stdin)
    IN IF ld.raised
       THEN { CommandError("load", ld.file, inst, ld.doc, NoOutcome, <<>>) }
       ELSE IF selected.err # ""
       THEN { CommandError("group", ld.file, inst, ld.doc, NoOutcome, selected.events) }
       ELSE UNION {
         IF d.raised
         THEN { CommandError("description", ld.file, inst, ld.doc, NoOutcome,
                             selected.events) }
         ELSE LET r == add_or_update(ld.doc, app, source, selected.name, d.description)
              IN IF r.err # ""
                 THEN { CommandError("repository", ld.file, inst, r.doc, NoOutcome,
                                     selected.events) }
                 ELSE IF no_install
                 THEN { CommandOk(save(r.doc), inst, r.doc, r.outcome,
                                  Append(selected.events, SaveEvent)) }
                 ELSE { IF ph.failed
                        THEN CommandError("install", ld.file, ph.installed, r.doc,
                                          r.outcome, selected.events \o ph.events)
                        ELSE CommandOk(save(r.doc), ph.installed, r.doc, r.outcome,
                                       Append(selected.events \o ph.events, SaveEvent))
                        : ph \in install_phase(r.outcome, source, inst) }
         : d \in infer_description(source, app, description) }

\* a remove that saves the manifest only after the uninstall returned
remove_app_uninstalls_first(file, inst, app, no_install) ==
    LET ld == load(file)
        r == remove(ld.doc, app)
    IN IF ld.raised
       THEN { CommandError("load", ld.file, inst, ld.doc, NotRemoved, <<>>) }
       ELSE IF ~r.outcome.removed
       THEN { CommandOk(ld.file, inst, r.doc, r.outcome, <<>>) }
       ELSE IF no_install
       THEN { CommandOk(save(r.doc), inst, r.doc, r.outcome, << SaveEvent >>) }
       ELSE { IF u.raised
              THEN CommandError("uninstall", ld.file, u.installed, r.doc, r.outcome, u.events)
              ELSE CommandOk(save(r.doc), u.installed, r.doc, r.outcome,
                             Append(u.events, SaveEvent))
              : u \in ensure_uninstalled(r.outcome.source, r.outcome.app_key, inst) }

\* a remove that writes the manifest also when the app was not found
remove_app_saves_when_not_found(file, inst, app, no_install) ==
    LET ld == load(file)
        r == remove(ld.doc, app)
    IN IF ld.raised
       THEN { CommandError("load", ld.file, inst, ld.doc, NotRemoved, <<>>) }
       ELSE IF ~r.outcome.removed \/ no_install
       THEN { CommandOk(save(r.doc), inst, r.doc, r.outcome, << SaveEvent >>) }
       ELSE { IF u.raised
              THEN CommandError("uninstall", save(r.doc), u.installed, r.doc, r.outcome,
                                << SaveEvent >> \o u.events)
              ELSE CommandOk(save(r.doc), u.installed, r.doc, r.outcome,
                             << SaveEvent >> \o u.events)
              : u \in ensure_uninstalled(r.outcome.source, r.outcome.app_key, inst) }

remove_app(file, inst, app, no_install) ==
    LET ld == load(file)
        r == remove(ld.doc, app)
    IN IF ld.raised
       THEN { CommandError("load", ld.file, inst, ld.doc, NotRemoved, <<>>) }
       ELSE IF ~r.outcome.removed
       THEN { CommandOk(ld.file, inst, r.doc, r.outcome, <<>>) }
       ELSE IF no_install
       THEN { CommandOk(save(r.doc), inst, r.doc, r.outcome, << SaveEvent >>) }
       ELSE { IF u.raised
              THEN CommandError("uninstall", save(r.doc), u.installed, r.doc, r.outcome,
                                << SaveEvent >> \o u.events)
              ELSE CommandOk(save(r.doc), u.installed, r.doc, r.outcome,
                             << SaveEvent >> \o u.events)
              : u \in ensure_uninstalled(r.outcome.source, r.outcome.app_key, inst) }

\* the group names and descriptions given on the command line: "D", " t", " ";
\* a description of two lines, or none
FacadeGroups == { <<68>>, <<32, 116>>, <<32>> }
FacadeDescs == { <<"x", "y">>, <<>> }

\* the manifests a run may find: no file, or a file with up to MaxFileRecords
\* records in up to two sections [d] and [t], written by this program or by
\* hand (keys in any order and casing), or a section next to a top-level key t
FileSources == { "cask", "mas" }

Rec(k, s) == [key |-> k, value |-> s, comment |-> "x"]
Section(g, table) == [name |-> g, isTable |-> TRUE, table |-> table]

\* the tables of n records with pairwise different keys, in any order
FileTables(n) ==
    { [i \in 1..n |-> Rec(t[i][1], t[i][2])] :
        t \in { u \in [1..n -> KeyPool \X FileSources] :
                  \A i, j \in 1..n : i # j => u[i][1] # u[j][1] } }

FileGroupOrders ==
    { <<>>, << <<100>> >>, << <<116>> >>, << <<100>>, <<116>> >>, << <<116>>, <<100>> >> }

RECURSIVE SumLens(_)
SumLens(tables) == IF tables = <<>> THEN 0 ELSE Len(Head(tables)) + SumLens(Tail(tables))

FileDocs ==
    LET tables == UNION { FileTables(n) : n \in 1..MaxFileRecords }
    IN UNION { { [i \in DOMAIN gs |-> Section(gs[i], ts[i])] :
                   ts \in { us \in [DOMAIN gs -> tables] : SumLens(us) <= MaxFileRecords } }
               : gs \in FileGroupOrders }
       \cup { << [name |-> <<116>>, isTable |-> FALSE, table |-> <<>>], Section(<<100>>, t) >> :
                t \in FileTables(1) }

FacadeFiles == { NoFile } \cup { [exists |-> TRUE, doc |-> d] : d \in FileDocs }

\* the machines a run may find: nothing installed, exactly the manifest's
\* records installed through their sources, or every key of the manifest
\* installed through every source
InstalledChoices(doc) ==
    LET recs == list_records(doc)
    IN { NothingInstalled,
         [s \in SourceNames |->
            { << recs[i].key, recs[i].key >> : i \in { j \in 1..Len(recs) : recs[j].source = s } }],
         [s \in SourceNames |-> { << recs[i].key, recs[i].key >> : i \in 1..Len(recs) }] }

Init ==
    /\ apps_file \in FacadeFiles
    /\ installed \in InstalledChoices(apps_file.doc)
    /\ document = <<>>
    /\ last = NoCall
    /\ other = <<>>
    /\ pending = <<{}, {}>>
    /\ service_classes = Registered
    /\ pc = "start"

Finish(o, call) ==
    /\ apps_file' = o.file
    /\ installed' = o.installed
    /\ document' = o.document
    /\ last' = call @@ [result |-> o.result, stage |-> o.stage, outcome |-> o.outcome,
                        events |-> o.events, fileBefore |-> apps_file,
                        installedBefore |-> installed]
    /\ pc' = "done"
    /\ UNCHANGED <<other, pending, service_classes>>

AddApp ==
    /\ pc = "start"
    /\ \E app \in KeyPool, source \in SourceNames, group \in FacadeGroups,
          description \in FacadeDescs, no_install \in BOOLEAN :
         \E o \in add_app(apps_file, installed, app, source, group, description, no_install,
                         NoStdin) :
            Finish(o, [op |-> "add", app |-> app, source |-> source, group |-> group,
                       description |-> description, no_install |-> no_install])

RemoveApp ==
    /\ pc = "start"
    /\ \E app \in KeyPool, no_install \in BOOLEAN :
         \E o \in remove_app(apps_file, installed, app, no_install) :
            Finish(o, [op |-> "remove", app |-> app, no_install |-> no_install])

Next == AddApp \/ RemoveApp

Spec == Init /\ [][Next]_vars

-----------------------------------------------------------------------------
(* LoadSpec: the list command (load, then render) on manifests written by  *)
(* hand: up to MaxLoadGroups sections [d], [e], ... of one or two records  *)
(* each, keys "a", "b", "B" in any order, also repeated across sections.   *)

LoadKeys == { <<97>>, <<98>>, <<66>> }

LoadTables ==
    { << Rec(k, "cask") >> : k \in LoadKeys }
    \cup { << Rec(ks[1], "cask"), Rec(ks[2], "cask") >> :
             ks \in { p \in LoadKeys \X LoadKeys : p[1] # p[2] } }

\* the i-th section is called "d", "e", "f", ...
LoadGroupName(i) == << 99 + i >>

LoadDocs ==
    UNION { { [i \in 1..n |-> Section(LoadGroupName(i), ts[i])] : ts \in [1..n -> LoadTables] }
            : n \in 0..MaxLoadGroups }

LoadFiles == { NoFile } \cup { [exists |-> TRUE, doc |-> d] : d \in LoadDocs }

\* a list that writes the document back after rendering it
list_apps_rewrites_manifest(file, inst) ==
    LET ld == load(file)
    IN IF ld.raised
       THEN CommandError("load", ld.file, inst, ld.doc, ld.lines, <<>>)
       ELSE CommandOk(save(ld.doc), inst, ld.doc, ld.lines, << SaveEvent >>)

list_apps(file, inst) ==
    LET ld == load(file)
    IN IF ld.raised
       THEN CommandError("load", ld.file, inst, ld.doc, ld.lines, <<>>)
       ELSE CommandOk(ld.file, inst, ld.doc, ld.lines, <<>>)

LoadInit ==
    /\ apps_file \in LoadFiles
    /\ installed = NothingInstalled
    /\ document = <<>>
    /\ last = NoCall
    /\ other = <<>>
    /\ pending = <<{}, {}>>
    /\ service_classes = Registered
    /\ pc = "start"

ListApps ==
    /\ pc = "start"
    /\ Finish(list_apps(apps_file, installed), [op |-> "list"])

\* the list command once more, on the file as the first run left it
ListAgain ==
    /\ pc = "done"
    /\ last.op = "list"
    /\ LET o == list_apps(apps_file, installed)
       IN /\ apps_file' = o.file
          /\ installed' = o.installed
          /\ document' = o.document
          /\ last' = [op |-> "list", result |-> o.result, stage |-> o.stage,
                      outcome |-> o.outcome, events |-> o.events, fileBefore |-> apps_file,
                      installedBefore |-> installed, first |-> last]
    /\ pc' = "again"
    /\ UNCHANGED <<other, pending, service_classes>>

LoadNext == ListApps \/ ListAgain

LoadSpec == LoadInit /\ [][LoadNext]_vars

-----------------------------------------------------------------------------
(* RepoSpec: the repository operations applied to one in-memory document,  *)
(* starting from the empty document that load() returns for a new file.    *)


RepoInit ==
    /\ document = <<>>
    /\ last = NoCall
    /\ apps_file = NoFile
    /\ installed = NothingInstalled
    /\ other = <<>>
    /\ pending = <<{}, {}>>
    /\ service_classes = Registered
    /\ pc = "start"

RepoAddOrUpdate ==
    \E app \in KeyPool, source \in RepoSources, group \in GroupPool, description \in RepoDescs :
        LET r == add_or_update(document, app, source, group, description)
        IN /\ document' = r.doc
           /\ last' = [op |-> "add_or_update", app |-> app, source |-> source,
                       group |-> group, description |-> description,
                       err |-> r.err, outcome |-> r.outcome,
                       \* the call repeats the arguments of a successful call
                       \* that immediately precedes it
                       repeat |-> /\ last.op = "add_or_update"
                                  /\ last.err = ""
                                  /\ <<last.app, last.source, last.group, last.description>>
                                       = <<app, source, group, description>>]
           /\ UNCHANGED <<apps_file, installed, other, pending, pc, service_classes>>

RepoRemove ==
    \E app \in KeyPool :
        LET r == remove(document, app)
        IN /\ document' = r.doc
           /\ last' = [op |-> "remove", app |-> app, outcome |-> r.outcome]
           /\ UNCHANGED <<apps_file, installed, other, pending, pc, service_classes>>

RepoNext == RepoAddOrUpdate \/ RepoRemove

RepoSpec == RepoInit /\ [][RepoNext]_vars

\* FrameSpec: the same operations on a document that was loaded with a section
\* [e] holding c = "cask"; no operation names that group or that key.
FrameInit ==
    /\ document = << [name |-> <<101>>, isTable |-> TRUE,
                      table |-> << [key |-> <<99>>, value |-> "cask", comment |-> "x"] >>] >>
    /\ last = NoCall
    /\ apps_file = NoFile
    /\ installed = NothingInstalled
    /\ other = <<>>
    /\ pending = <<{}, {}>>
    /\ service_classes = Registered
    /\ pc = "start"

FrameSpec == FrameInit /\ [][RepoNext]_vars

-----------------------------------------------------------------------------
(* PermSpec: the same set of records is added to the same group of two     *)
(* copies of a document, in two independently chosen orders.               *)

\* the documents the runs start from: the empty one, and one that already holds
\* "b" in [d] and "a" in [t]
PermBases ==
    { <<>>,
      add_or_update(add_or_update(<<>>, <<98>>, "cask", <<100>>, <<"x">>).doc,
                    <<97>>, "uv", <<116>>, <<"x">>).doc }

\* the group argument of every add of a run: "d" or " t"
PermGroups == { <<100>>, <<32, 116>> }

\* the sets of <<key, source>> to add: keys pairwise distinct under case folding
PermSets ==
    { S \in SUBSET (KeyPool \X RepoSources) :
        /\ S # {}
        /\ \A r1, r2 \in S : r1 # r2 => lower(r1[1]) # lower(r2[1]) }

PermInit ==
    \E base \in PermBases, g \in PermGroups, S \in PermSets :
        /\ document = base
        /\ other = base
        /\ pending = <<S, S>>
        /\ service_classes = Registered
        /\ last = [op |-> "perm", group |-> g, orderA |-> <<>>, orderB |-> <<>>]
        /\ apps_file = NoFile
        /\ installed = NothingInstalled
        /\ pc = "start"

PermAddA ==
    \E r \in pending[1] :
        /\ document' = add_or_update(document, r[1], r[2], last.group, <<"x">>).doc
        /\ pending' = <<pending[1] \ {r}, pending[2]>>
        /\ last' = [last EXCEPT !.orderA = Append(@, r)]
        /\ UNCHANGED <<apps_file, installed, other, pc, service_classes>>

PermAddB ==
    \E r \in pending[2] :
        /\ other' = add_or_update(other, r[1], r[2], last.group, <<"x">>).doc
        /\ pending' = <<pending[1], pending[2] \ {r}>>
        /\ last' = [last EXCEPT !.orderB = Append(@, r)]
        /\ UNCHANGED <<apps_file, installed, document, pc, service_classes>>

PermNext == PermAddA \/ PermAddB

PermSpec == PermInit /\ [][PermNext]_vars

-----------------------------------------------------------------------------
(* AppManagerFacade.sync_apps: the four phases of one sync run.  An          *)
(* AppManagerError raised by a strategy is caught nowhere in sync_apps, so   *)
(* it ends the run.                                                          *)

\* a maintenance key that is the source's own name
maintenance_key_per_source(source) == source

\* maintenance_key: provider_name or source_name
maintenance_key(source) == IF source \in BrewSources THEN "brew" ELSE source

\* sorted() of the enabled source names and of the provider names
SortedSources == << "cask", "formula", "mas", "uv" >>
SortedProviders == << "brew", "mas", "uv" >>

\* sorted() of a set of strings / of (identifier, name) pairs by code point
PairLess(e, f) == StrLess(e[1], f[1]) \/ (e[1] = f[1] /\ StrLess(e[2], f[2]))

RECURSIVE SortedPairs(_)
SortedPairs(S) ==
    IF S = {} THEN <<>>
    ELSE LET m == CHOOSE e \in S : \A f \in S \ {e} : PairLess(e, f)
         IN <<m>> \o SortedPairs(S \ {m})

UnmanagedApp(source, identifier, display) ==
    [source |-> source, identifier |-> identifier, display |-> display]

\* a find_unmanaged that compares the identifiers as written
find_unmanaged_case_sensitive(source, managed, inst) ==
    LET reported == IF source = "formula" THEN inst[Leaves] ELSE inst[source]
        missing == SelectSeq(SortedPairs(reported), LAMBDA e : e[1] \notin managed)
    IN { [raised |-> TRUE, missing |-> <<>>],
         [raised |-> FALSE,
          missing |-> [i \in 1..Len(missing) |->
                         UnmanagedApp(source, missing[i][1], missing[i][1])]] }

\* find_unmanaged: cask and uv filter list_installed, formula filters the
\* output of `brew leaves`, mas filters list_installed by the app id and shows
\* "name (id)"; the command behind it may fail
find_unmanaged(source, managed, inst) ==
    LET managed_norm == { lower(item) : item \in managed }
        reported == IF source = "formula" THEN inst[Leaves] ELSE inst[source]
        missing == SelectSeq(SortedPairs(reported), LAMBDA e : lower(e[1]) \notin managed_norm)
    IN { [raised |-> TRUE, missing |-> <<>>],
         [raised |-> FALSE,
          missing |-> [i \in 1..Len(missing) |->
                         UnmanagedApp(source, missing[i][1],
                             IF source = "mas"
                             THEN missing[i][2] \o <<32, 40>> \o missing[i][1] \o <<41>>
                             ELSE missing[i][1])]] }

\* uninstall_unmanaged: `brew uninstall --cask --zap` for a cask, uninstall()
\* for every other source
uninstall_unmanaged(source, app, inst) ==
    IF source = "cask"
    THEN { [raised |-> FALSE, result |-> OperationOk(""),
            installed |-> AfterUninstall(source, app, inst)],
           [raised |-> TRUE, result |-> NoResult, installed |-> inst] }
    ELSE uninstall(source, app, inst)

\* upgrade_all: the upgrade commands succeed, or one of them exits non-zero
upgrade_all(source) == { [raised |-> FALSE], [raised |-> TRUE] }

\* Console.prompt_yes_no: True with auto_yes; else input() returns "y", returns
\* something else, or raises EOFError when standard input has nothing to read
prompt_yes_no(auto_yes) ==
    IF auto_yes THEN { "auto" } ELSE { "y", "n", "EOFError" }

\* where a sync run stands: the exception that ended it ("" while it runs),
\* the machine, the calls and commands so far, the per-provider reports
NotRaised == ""
SyncStep(raised, inst, events, reports) ==
    [raised |-> raised, installed |-> inst, events |-> events, reports |-> reports]

Phase(name) == Event("phase", name, <<>>, TRUE)

\* _prime_source_caches: with formula enabled, prime_linux_skip_cache is called
\* with the declared formulae; on macOS it returns at once, elsewhere it asks
\* brew about the list when the list is not empty, and a missing brew
\* executable raises
prime_source_caches(recs, enabled) ==
    LET formula_list == SelectSeq(recs, LAMBDA r : r.source = "formula")
        call == Event("prime", "formula", <<>>, TRUE)
    IN IF "formula" \notin enabled THEN { [raised |-> FALSE, events |-> <<>>] }
       ELSE { [raised |-> FALSE, events |-> << call >>] }
            \cup ( IF formula_list = <<>> THEN {}
                   ELSE { [raised |-> FALSE,
                           events |-> << call, Event("info", "formula", <<>>, TRUE) >>],
                          [raised |-> TRUE,
                           events |-> << call, Event("info", "formula", <<>>, FALSE) >>] } )

\* an install phase that does not look at the enabled sources
RECURSIVE install_declared_every_record(_, _, _)
install_declared_every_record(recs, enabled, st) ==
    IF recs = <<>> THEN { st }
    ELSE LET r == Head(recs)
             call == Event("ensure_installed", r.source, r.key, TRUE)
         IN UNION {
              IF e.raised
              THEN { SyncStep("AppManagerError", e.installed,
                              st.events \o << call >> \o e.events, st.reports) }
              ELSE install_declared_every_record(Tail(recs), enabled,
                       SyncStep(NotRaised, e.installed,
                                st.events \o << call >> \o e.events
                                  \o << Event(IF e.result.skipped THEN "skipped"
                                              ELSE "installed",
                                              r.source, r.key, e.result.success) >>,
                                st.reports))
              : e \in ensure_installed(r.source, r.key, st.installed) }

\* _install_declared: ensure_installed for every record of an enabled source,
\* in the order of list_grouped_records
RECURSIVE install_declared(_, _, _)
install_declared(recs, enabled, st) ==
    IF recs = <<>> THEN { st }
    ELSE LET r == Head(recs)
             call == Event("ensure_installed", r.source, r.key, TRUE)
         IN IF r.source \notin enabled
            THEN install_declared(Tail(recs), enabled, st)
            ELSE UNION {
                   IF e.raised
                   THEN { SyncStep("AppManagerError", e.installed,
                                   st.events \o << call >> \o e.events, st.reports) }
                   ELSE install_declared(Tail(recs), enabled,
                            SyncStep(NotRaised, e.installed,
                                     st.events \o << call >> \o e.events
                                       \o << Event(IF e.result.skipped THEN "skipped"
                                                   ELSE "installed",
                                                   r.source, r.key, e.result.success) >>,
                                     st.reports))
                   : e \in ensure_installed(r.source, r.key, st.installed) }

\* the find_unmanaged calls of one provider, source by source
RECURSIVE find_all(_, _, _)
find_all(srcs, managed, inst) ==
    IF srcs = <<>> THEN { [raised |-> FALSE, missing |-> <<>>, events |-> <<>>] }
    ELSE UNION {
           IF f.raised
           THEN { [raised |-> TRUE, missing |-> <<>>,
                   events |-> << Event("find_unmanaged", Head(srcs), <<>>, FALSE) >>] }
           ELSE { [raised |-> rest.raised,
                   missing |-> f.missing \o rest.missing,
                   events |-> << Event("find_unmanaged", Head(srcs), <<>>, TRUE) >>
                                \o rest.events]
                  : rest \in find_all(Tail(srcs), managed, inst) }
           : f \in find_unmanaged(Head(srcs), managed, inst) }

\* an uninstall loop that uninstalls nothing
uninstall_all_skips_items(items, st) == { st }

\* the uninstall loop over the unmanaged items of one provider
RECURSIVE uninstall_all(_, _)
uninstall_all(items, st) ==
    IF items = <<>> THEN { st }
    ELSE LET item == Head(items)
         IN UNION {
              IF u.raised
              THEN { SyncStep("AppManagerError", u.installed,
                              Append(st.events, Event("uninstall_unmanaged", item.source,
                                                      item.identifier, FALSE)),
                              st.reports) }
              ELSE uninstall_all(Tail(items),
                       SyncStep(NotRaised, u.installed,
                                Append(st.events, Event("uninstall_unmanaged", item.source,
                                                        item.identifier, u.result.success)),
                                st.reports))
              : u \in uninstall_unmanaged(item.source, item.identifier, st.installed) }

Report(provider, managed, unmanaged, answer) ==
    [provider |-> provider, managed |-> managed, unmanaged |-> unmanaged, answer |-> answer]

\* _sync_unmanaged from the provider loop on; orders[provider] is the order in
\* which the iteration over the set of enabled sources met the provider's
\* sources
RECURSIVE sync_providers(_, _, _, _, _, _)
sync_providers(providers, orders, recs, enabled, yes, st) ==
    IF providers = <<>> THEN { st }
    ELSE LET provider == Head(providers)
             provider_sources == SelectSeq(orders[provider], LAMBDA x : x \in enabled)
             managed == UNION { managed_aliases(recs[i].source, recs[i].key)
                                : i \in { j \in 1..Len(recs) :
                                            recs[j].source \in Range(provider_sources) } }
             next(st2) == sync_providers(Tail(providers), orders, recs, enabled, yes, st2)
         IN IF provider_sources = <<>> THEN next(st)
            ELSE UNION {
              IF f.raised
              THEN { SyncStep("AppManagerError", st.installed, st.events \o f.events,
                              st.reports) }
              ELSE IF f.missing = <<>>
              THEN next(SyncStep(NotRaised, st.installed, st.events \o f.events,
                                 Append(st.reports, Report(provider, managed, <<>>, "none"))))
              ELSE UNION {
                LET asked == SyncStep(NotRaised, st.installed,
                                 st.events \o f.events
                                   \o << Event("prompt", provider, <<>>, answer \in {"auto", "y"}) >>,
                                 Append(st.reports, Report(provider, managed, f.missing, answer)))
                IN IF answer = "EOFError" THEN { [asked EXCEPT !.raised = "EOFError"] }
                   ELSE IF answer = "n" THEN next(asked)
                   ELSE UNION { IF u.raised # NotRaised THEN { u } ELSE next(u)
                                : u \in uninstall_all(f.missing, asked) }
                : answer \in prompt_yes_no(yes) }
              : f \in find_all(provider_sources, managed, st.installed) }

\* the orders in which a provider's sources can come out of the set
ProviderOrders ==
    { [brew |-> o, mas |-> << "mas" >>, uv |-> << "uv" >>]
      : o \in { << "cask", "formula" >>, << "formula", "cask" >> } }

sync_unmanaged(recs, enabled, yes, st) ==
    UNION { sync_providers(SortedProviders, orders, recs, enabled, yes, st)
            : orders \in ProviderOrders }

\* _upgrade_sources: upgrade_all once per maintenance key, through the first
\* enabled source of the key in sorted order
RECURSIVE upgrade_sources(_, _, _, _)
upgrade_sources(sources, enabled, seen, st) ==
    IF sources = <<>> THEN { st }
    ELSE LET source == Head(sources)
             key == maintenance_key(source)
         IN IF source \notin enabled \/ key \in seen
            THEN upgrade_sources(Tail(sources), enabled, seen, st)
            ELSE UNION {
                   IF u.raised
                   THEN { SyncStep("AppManagerError", st.installed,
                                   Append(st.events, Event("upgrade_all", source, <<>>, FALSE)),
                                   st.reports) }
                   ELSE upgrade_sources(Tail(sources), enabled, seen \cup { key },
                            SyncStep(NotRaised, st.installed,
                                     Append(st.events, Event("upgrade_all", source, <<>>, TRUE)),
                                     st.reports))
                   : u \in upgrade_all(source) }

\* a sync that upgrades before it looks for unmanaged apps
sync_apps_upgrades_before_unmanaged(file, inst, yes, enabled) ==
    LET ld == load(file)
        recs == list_records(ld.doc)
        done(stage, st) ==
            IF st.raised # NotRaised
            THEN CommandError(stage, ld.file, st.installed, ld.doc, st.reports, st.events)
            ELSE CommandOk(ld.file, st.installed, ld.doc, st.reports, st.events)
        enter(st, name) == [st EXCEPT !.events = Append(@, Phase(name))]
    IN IF ld.raised
       THEN { CommandError("load", ld.file, inst, ld.doc, <<>>, <<>>) }
       ELSE UNION {
         IF p.raised
         THEN { done("prime", SyncStep("AppManagerError", inst,
                                       << Phase("prime") >> \o p.events, <<>>)) }
         ELSE UNION {
           IF i.raised # NotRaised THEN { done("install", i) }
           ELSE UNION {
             IF g.raised # NotRaised THEN { done("upgrade", g) }
             ELSE { done("unmanaged", u)
                    : u \in sync_unmanaged(recs, enabled, yes, enter(g, "unmanaged")) }
             : g \in upgrade_sources(SortedSources, enabled, {}, enter(i, "upgrade")) }
           : i \in install_declared(recs, enabled,
                       SyncStep(NotRaised, inst,
                                << Phase("prime") >> \o p.events \o << Phase("install") >>,
                                <<>>)) }
         : p \in prime_source_caches(recs, enabled) }

sync_apps(file, inst, yes, enabled) ==
    LET ld == load(file)
        recs == list_records(ld.doc)
        done(stage, st) ==
            IF st.raised # NotRaised
            THEN CommandError(stage, ld.file, st.installed, ld.doc, st.reports, st.events)
            ELSE CommandOk(ld.file, st.installed, ld.doc, st.reports, st.events)
        enter(st, name) == [st EXCEPT !.events = Append(@, Phase(name))]
    IN IF ld.raised
       THEN { CommandError("load", ld.file, inst, ld.doc, <<>>, <<>>) }
       ELSE UNION {
         IF p.raised
         THEN { done("prime", SyncStep("AppManagerError", inst,
                                       << Phase("prime") >> \o p.events, <<>>)) }
         ELSE UNION {
           IF i.raised # NotRaised THEN { done("install", i) }
           ELSE UNION {
             IF u.raised # NotRaised THEN { done("unmanaged", u) }
             ELSE { done("upgrade", g)
                    : g \in upgrade_sources(SortedSources, enabled, {},
                                            enter(u, "upgrade")) }
             : u \in sync_unmanaged(recs, enabled, yes, enter(i, "unmanaged")) }
           : i \in install_declared(recs, enabled,
                       SyncStep(NotRaised, inst,
                                << Phase("prime") >> \o p.events \o << Phase("install") >>,
                                <<>>)) }
         : p \in prime_source_caches(recs, enabled) }

-----------------------------------------------------------------------------
(* SyncSpec: one sync run on a manifest and a machine that together hold up *)
(* to MaxSyncSize declared records and installed items.                     *)

\* the declared apps: "A" through any source, the tap formula or cask "t/b"
SyncRecords ==
    { << <<65>>, s >> : s \in SourceNames } \cup { << <<116, 47, 98>>, s >> : s \in BrewSources }

SyncTables(n) ==
    { [i \in 1..n |-> Rec(t[i][1], t[i][2])] :
        t \in { u \in [1..n -> SyncRecords] : \A i, j \in 1..n : i # j => u[i][1] # u[j][1] } }

\* the records in one section [d] in the order the program writes them, or (in
\* the other order) split over the sections [d] and [t]
SyncDocs ==
    UNION { { << Section(<<100>>, t) >> : t \in { u \in SyncTables(n) : sorted_table(u) = u } }
            \cup { << Section(<<100>>, SubSeq(t, 1, k)), Section(<<116>>, SubSeq(t, k + 1, n)) >>
                   : t \in { u \in SyncTables(n) : sorted_table(u) # u }, k \in 1..(n - 1) }
            : n \in 1..MaxSyncSize }

SyncFiles == { NoFile, [exists |-> TRUE, doc |-> <<>>] }
             \cup { [exists |-> TRUE, doc |-> d] : d \in SyncDocs }

\* what an installer may list: "a" (the app "A" in the installer's casing), "b"
\* (the name of "t/b"), the undeclared "z"; for formula also "y", installed as
\* a dependency and so no leaf; for mas the ids "a" and "8", and the id "9" of
\* an app whose name is "a"
SyncItems ==
    { << "cask", << <<97>>, <<97>> >> >>, << "cask", << <<122>>, <<122>> >> >>,
      << "formula", << <<98>>, <<98>> >> >>, << "formula", << <<122>>, <<122>> >> >>,
      << "formula", << <<121>>, <<121>> >> >>,
      << "uv", << <<97>>, <<97>> >> >>, << "uv", << <<122>>, <<122>> >> >>,
      << "mas", << <<97>>, <<97>> >> >>, << "mas", << <<57>>, <<97>> >> >>,
      << "mas", << <<56>>, <<122>> >> >> }

\* the machines: `brew leaves` prints the installed formulae but "y"
SyncMachines ==
    { [s \in SourceNames \cup { Leaves } |->
         IF s = Leaves
         THEN { x[2] : x \in { y \in S : y[1] = "formula" /\ y[2][1] # <<121>> } }
         ELSE { x[2] : x \in { y \in S : y[1] = s } }]
      : S \in { T \in SUBSET SyncItems : Cardinality(T) <= MaxSyncSize } }

SyncInit ==
    /\ apps_file \in SyncFiles
    /\ installed \in SyncMachines
    /\ Len(list_records(apps_file.doc))
         + Cardinality(UNION { { <<s, e>> : e \in installed[s] } : s \in SourceNames })
         <= MaxSyncSize
    /\ document = <<>>
    /\ last = NoCall
    /\ other = <<>>
    /\ pending = <<{}, {}>>
    /\ service_classes = Registered
    /\ pc = "start"

SyncApps ==
    /\ pc = "start"
    /\ \E yes \in BOOLEAN, enabled \in SUBSET SourceNames :
         \E o \in sync_apps(apps_file, installed, yes, enabled) :
            Finish(o, [op |-> "sync", yes |-> yes, enabled |-> enabled])

SyncNext == SyncApps

SyncSpec == SyncInit /\ [][SyncNext]_vars

-----------------------------------------------------------------------------
(* StrategySpec: one call of ensure_installed or ensure_uninstalled on the  *)
(* strategy of a source, for the app "A" or "t/b", on any of the machines.  *)

StrategyApps == { <<65>>, <<116, 47, 98>> }

StrategyInit ==
    /\ installed \in SyncMachines
    /\ apps_file = NoFile
    /\ document = <<>>
    /\ last = NoCall
    /\ other = <<>>
    /\ pending = <<{}, {}>>
    /\ service_classes = Registered
    /\ pc = "start"

StrategyReturn(op, source, app, o) ==
    /\ installed' = o.installed
    /\ last' = [op |-> op, source |-> source, app |-> app, raised |-> o.raised,
                result |-> o.result, events |-> o.events, installedBefore |-> installed,
                preflight |-> IF "preflight" \in DOMAIN o THEN o.preflight ELSE [consulted |-> FALSE]]
    /\ pc' = "done"
    /\ UNCHANGED <<apps_file, document, other, pending, service_classes>>

EnsureInstalled ==
    /\ pc = "start"
    /\ \E source \in SourceNames, app \in StrategyApps :
         \E o \in ensure_installed(source, app, installed) :
            StrategyReturn("ensure_installed", source, app, o)

EnsureUninstalled ==
    /\ pc = "start"
    /\ \E source \in SourceNames, app \in StrategyApps :
         \E o \in ensure_uninstalled(source, app, installed) :
            StrategyReturn("ensure_uninstalled", source, app, o)

StrategyNext == EnsureInstalled \/ EnsureUninstalled

StrategySpec == StrategyInit /\ [][StrategyNext]_vars

-----------------------------------------------------------------------------
(* InstanceSpec: any number of calls on one strategy instance, as the       *)
(* facade makes them on the instance that get_service keeps for a source.   *)
(* `other` is the instance and what is known about its past: the platform,  *)
(* the formula strategy's _linux_macos_only_cache, whether list_installed   *)
(* has returned a listing to it, and the list it was last primed with.      *)

InstanceInit ==
    /\ \E source \in SourceNames, system \in { "Darwin", "Linux" } :
         /\ other = [source |-> source, system |-> system, cache |-> {},
                     queried |-> FALSE, primed |-> [done |-> FALSE, formulae |-> <<>>]]
         /\ installed \in { m \in SyncMachines :
                               \A s \in SourceNames \ { source } : m[s] = {} }
    /\ apps_file = NoFile
    /\ document = <<>>
    /\ last = [op |-> "none", app |-> <<>>, performed |-> FALSE]
    /\ pending = <<{}, {}>>
    /\ service_classes = Registered
    /\ pc = "start"

\* service.is_installed(app)
IsInstalled ==
    \E app \in StrategyApps : \E l \in list_installed(other.source, installed) :
        /\ last' = [op |-> "is_installed", app |-> app, raised |-> l.raised,
                    result |-> ~l.raised /\ is_installed(other.source, app, l.listed),
                    events |-> << Event("list", other.source, app, ~l.raised) >>,
                    performed |-> FALSE, instance |-> other,
                    previous |-> [op |-> last.op, app |-> last.app,
                                 performed |-> last.performed]]
        /\ other' = [other EXCEPT !.queried = @ \/ ~l.raised]
        /\ UNCHANGED <<apps_file, installed, document, pending, pc, service_classes>>

\* service.ensure_installed(app)
InstanceEnsureInstalled ==
    \E app \in StrategyApps : \E o \in ensure_installed(other.source, app, installed) :
        /\ installed' = o.installed
        /\ last' = [op |-> "ensure_installed", app |-> app, raised |-> o.raised,
                    result |-> o.result, events |-> o.events,
                    performed |-> \E i \in 1..Len(o.events) :
                                    o.events[i].ev \in { "install", "uninstall" }
                                      /\ o.events[i].ok,
                    instance |-> other,
                    previous |-> [op |-> last.op, app |-> last.app,
                                 performed |-> last.performed]]
        /\ other' = [other EXCEPT !.queried = @ \/ o.events[1].ok]
        /\ UNCHANGED <<apps_file, document, pending, pc, service_classes>>

\* service.ensure_uninstalled(app)
InstanceEnsureUninstalled ==
    \E app \in StrategyApps : \E o \in ensure_uninstalled(other.source, app, installed) :
        /\ installed' = o.installed
        /\ last' = [op |-> "ensure_uninstalled", app |-> app, raised |-> o.raised,
                    result |-> o.result, events |-> o.events,
                    performed |-> \E i \in 1..Len(o.events) :
                                    o.events[i].ev \in { "install", "uninstall" }
                                      /\ o.events[i].ok,
                    instance |-> other,
                    previous |-> [op |-> last.op, app |-> last.app,
                                 performed |-> last.performed]]
        /\ other' = [other EXCEPT !.queried = @ \/ o.events[1].ok]
        /\ UNCHANGED <<apps_file, document, pending, pc, service_classes>>

\* formula_service.prime_linux_skip_cache(formula_list), with the declared
\* formulae that _prime_source_caches collects
PrimeLinuxSkipCache ==
    /\ other.source = "formula"
    /\ \E formulae \in { <<>>, << <<65>> >>, << <<116, 47, 98>> >>,
                          << <<65>>, <<116, 47, 98>> >> } :
         \E p \in prime_linux_skip_cache(other.system, other.cache, formulae) :
            /\ last' = [op |-> "prime_linux_skip_cache", app |-> <<>>, formulae |-> formulae,
                        raised |-> p.raised, events |-> p.events,
                        performed |-> FALSE, instance |-> other,
                    previous |-> [op |-> last.op, app |-> last.app,
                                 performed |-> last.performed]]
            /\ other' = [other EXCEPT !.cache = p.cache,
                                      !.primed = IF p.raised THEN @
                                                 ELSE [done |-> TRUE, formulae |-> formulae]]
    /\ UNCHANGED <<apps_file, installed, document, pending, pc, service_classes>>

\* formula_service.pre_install_check(app)
PreInstallCheck ==
    /\ other.source = "formula"
    /\ \E app \in StrategyApps :
         \E r \in BrewFormula_pre_install_check(other.system, other.cache, app) :
            last' = [op |-> "pre_install_check", app |-> app, raised |-> r.raised,
                     none |-> r.none, result |-> r.result, events |-> r.events,
                     performed |-> FALSE, instance |-> other,
                    previous |-> [op |-> last.op, app |-> last.app,
                                 performed |-> last.performed]]
    /\ UNCHANGED <<apps_file, installed, document, other, pending, pc, service_classes>>

InstanceNext ==
    \/ IsInstalled
    \/ InstanceEnsureInstalled
    \/ InstanceEnsureUninstalled
    \/ PrimeLinuxSkipCache
    \/ PreInstallCheck

InstanceSpec == InstanceInit /\ [][InstanceNext]_vars

-----------------------------------------------------------------------------
(* CliSpec: one command from the command line (add, sync, remove, list or   *)
(* info), where the manifest may be malformed, --group may be missing and   *)
(* standard input may or may not be a terminal.                             *)

MalformedFile == [exists |-> TRUE, doc |-> <<>>, malformed |-> TRUE]

\* the machines: nothing installed, or every key of the manifest installed
\* through every source, the formulae as leaves
CliMachines(doc) ==
    { [s \in SourceNames \cup { Leaves } |-> IF s = Leaves THEN m["formula"] ELSE m[s]]
      : m \in InstalledChoices(doc) }

\* --group " " or " t" (standard input is not read), or no --group with
\* standard input no terminal, or a terminal at which is typed: nothing (end
\* of input), "1", "0" then "n", "D", a blank line then "2", "9"
CliGroupInputs ==
    { << g, NoStdin >> : g \in { <<32>>, <<32, 116>> } }
    \cup { << <<>>, Stdin(TRUE, lines) >>
           : lines \in { <<>>, << <<49>> >>, << <<48>>, <<110>> >>, << <<68>> >>,
                         << <<32>>, <<50>> >>, << <<57>> >> } }
    \cup { << <<>>, NoStdin >> }

CliInit ==
    /\ apps_file \in FacadeFiles \cup { MalformedFile }
    /\ installed \in CliMachines(apps_file.doc)
    /\ document = <<>>
    /\ last = NoCall
    /\ other = <<>>
    /\ pending = <<{}, {}>>
    /\ service_classes = Registered
    /\ pc = "start"

\* an add of the app "B" or "a" through uv or cask
CliAdd ==
    /\ pc = "start"
    /\ \E app \in { <<66>>, <<97>> }, source \in { "uv", "cask" }, gi \in CliGroupInputs,
          description \in FacadeDescs, no_install \in BOOLEAN :
         \E o \in add_app(apps_file, installed, app, source, gi[1], description, no_install,
                          gi[2]) :
            Finish(o, [op |-> "add", app |-> app, source |-> source, group |-> gi[1],
                       description |-> description, no_install |-> no_install,
                       stdin |-> gi[2]])

\* a sync of all sources or of cask alone; it reads standard input only
\* through prompt_yes_no, which does not ask whether it is a terminal and
\* whose outcomes stand for whatever standard input holds
CliSync ==
    /\ pc = "start"
    /\ "malformed" \notin DOMAIN apps_file
    /\ \E yes \in BOOLEAN, enabled \in { SourceNames, { "cask" } }, isatty \in BOOLEAN :
         \E o \in sync_apps(apps_file, installed, yes, enabled) :
            Finish(o, [op |-> "sync", yes |-> yes, enabled |-> enabled,
                       stdin |-> [isatty |-> isatty]])

\* a remove of the app "B" or "a"; it never reads standard input
CliRemove ==
    /\ pc = "start"
    /\ \E app \in { <<66>>, <<97>> }, no_install \in BOOLEAN, isatty \in BOOLEAN :
         \E o \in remove_app(apps_file, installed, app, no_install) :
            Finish(o, [op |-> "remove", app |-> app, no_install |-> no_install,
                       stdin |-> [isatty |-> isatty]])

\* the list command
CliList ==
    /\ pc = "start"
    /\ \E isatty \in BOOLEAN :
         Finish(list_apps(apps_file, installed), [op |-> "list", stdin |-> [isatty |-> isatty]])

\* print_info: load, then the strategy's fetch_info, whose installer command
\* reports on the app or fails; the uv strategy also looks the app up in the
\* loaded document for its description
CliInfo ==
    /\ pc = "start"
    /\ \E app \in { <<66>>, <<97>> }, source \in { "uv", "cask" }, reported \in BOOLEAN,
          isatty \in BOOLEAN :
         LET ld == load(apps_file)
             call == << Event("info", source, app, reported) >>
             record == find_app(ld.doc, app)
         IN Finish(IF ld.raised
                   THEN CommandError("load", ld.file, installed, ld.doc, <<>>, <<>>)
                   ELSE IF ~reported
                   THEN CommandError("info", ld.file, installed, ld.doc, <<>>, call)
                   ELSE CommandOk(ld.file, installed, ld.doc,
                                  [name |-> app, source |-> source,
                                   description |-> IF source = "uv" /\ record.found
                                                   THEN record.description ELSE "info"],
                                  call),
                   [op |-> "info", app |-> app, source |-> source,
                    stdin |-> [isatty |-> isatty]])

CliNext == CliAdd \/ CliSync \/ CliRemove \/ CliList \/ CliInfo

CliSpec == CliInit /\ [][CliNext]_vars

-----------------------------------------------------------------------------
(* RegistrySpec: the registry from empty on; subclasses of                  *)
(* BaseSourceService are defined in any order, the module's own and a       *)
(* second class that claims "uv", and create is called with any name.       *)

RegistryInit ==
    /\ service_classes = <<>>
    /\ apps_file = NoFile
    /\ installed = NothingInstalled
    /\ document = <<>>
    /\ last = NoCall
    /\ other = <<>>
    /\ pending = <<{}, {}>>
    /\ pc = "start"

\* a class statement: BaseSourceService.__init_subclass__ registers the class
DefineService ==
    \E service_cls \in Range(ModuleClasses) \cup { ServiceClass("AnotherUv", "uv") } :
        LET r == register(service_classes, service_cls)
        IN /\ service_classes' = r.classes
           /\ last' = [op |-> "register", cls |-> service_cls, raised |-> r.raised,
                       before |-> service_classes]
           /\ UNCHANGED <<apps_file, installed, document, other, pending, pc>>

CreateService ==
    \E source \in SourceNames \cup { "unknown", "" } :
        LET r == create(service_classes, source)
        IN /\ last' = [op |-> "create", source |-> source, raised |-> r.raised,
                       cls |-> r.cls, before |-> service_classes]
           /\ UNCHANGED <<apps_file, installed, document, other, pending, pc,
                          service_classes>>

RegistryNext == DefineService \/ CreateService

RegistrySpec == RegistryInit /\ [][RegistryNext]_vars

-----------------------------------------------------------------------------
(* Vocabulary of the properties; nothing below calls a repository operator. *)

GroupNames(doc) == { doc[i].name : i \in 1..Len(doc) }

\* the table of group g, <<>> when the document has no such group
TableOf(doc, g) ==
    IF \E i \in 1..Len(doc) : doc[i].name = g
    THEN doc[CHOOSE i \in 1..Len(doc) : doc[i].name = g].table
    ELSE <<>>

\* positions <<i, j>> of the records of the document
Positions(doc) == { <<i, j>> \in (1..Len(doc)) \X (1..4) : j <= Len(doc[i].table) }

FoldedKeyAt(doc, p) == lower(doc[p[1]].table[p[2]].key)

UniqueFoldedKeys(doc) ==
    \A p, q \in Positions(doc) : p # q => FoldedKeyAt(doc, p) # FoldedKeyAt(doc, q)

\* ascending (not necessarily strictly) by lower-cased key
AscendingByLower(table) ==
    \A j \in 1..(Len(table) - 1) : ~StrLess(lower(table[j + 1].key), lower(table[j].key))

\* the sequence without its j-th element
Without(seq, j) == SubSeq(seq, 1, j - 1) \o SubSeq(seq, j + 1, Len(seq))

\* C4: starting from the empty document, after any sequence of add_or_update and
\* remove calls no two records of the document, in the same or in different
\* groups, have the same case-folded key.
C4_GlobalKeyUniqueness == UniqueFoldedKeys(document)

\* C4 witness: an add under another casing found the stored record in another
\* group and moved it.
C4_Witness ==
    /\ last.op = "add_or_update"
    /\ last.err = ""
    /\ last.app # last.outcome.app_key
    /\ last.outcome.moved_from # NoneStr
    /\ Cardinality(Positions(document)) >= 2

\* C9: no group of the document is ever empty; a group that appears was created
\* by an add_or_update that put its first record into it, and a group that
\* disappears held exactly one record, which the call removed or moved away.
C9_NoEmptyGroups ==
    /\ [](\A i \in 1..Len(document) : Len(document[i].table) >= 1)
    /\ [][ /\ \A g \in GroupNames(document') \ GroupNames(document) :
                /\ last'.op = "add_or_update"
                /\ last'.outcome.group = g
                /\ Len(TableOf(document', g)) = 1
           /\ \A g \in GroupNames(document) \ GroupNames(document') :
                /\ Len(TableOf(document, g)) = 1
                /\ \/ last'.op = "remove" /\ last'.outcome.group = g
                   \/ last'.op = "add_or_update" /\ last'.outcome.moved_from = g
           /\ \A g \in GroupNames(document) \cap GroupNames(document') :
                Len(TableOf(document', g)) >= 1 ]_vars

\* C9 witness: a cross-group move took the last record out of its group, the
\* group is gone and the target group was created by the same call.
C9_Witness ==
    /\ last.op = "add_or_update"
    /\ last.err = ""
    /\ last.outcome.moved_from # NoneStr
    /\ last.outcome.moved_from \notin GroupNames(document)
    /\ Len(TableOf(document, last.outcome.group)) = 1

\* C10: remove matches the key case-insensitively; for a stored record it
\* returns removed with the stored key, source and group, deletes the group when
\* that was its last record and otherwise keeps the group, in place, with the
\* remaining records in their sorted order; for an absent key it returns
\* removed = false and leaves the document unchanged.
C10_Remove ==
    [][ last'.op = "remove" =>
        LET hits == { p \in Positions(document) :
                        FoldedKeyAt(document, p) = lower(last'.app) }
        IN IF hits = {}
           THEN /\ ~last'.outcome.removed
                /\ document' = document
           ELSE \E p \in hits :
                  LET entry == document[p[1]]
                      rec == entry.table[p[2]]
                      rest == Without(entry.table, p[2])
                  IN /\ last'.outcome = [removed |-> TRUE, app_key |-> rec.key,
                                         source |-> rec.value, group |-> entry.name]
                     /\ IF rest = <<>>
                        THEN document' = Without(document, p[1])
                        ELSE /\ document' = [document EXCEPT ![p[1]].table = rest]
                             /\ AscendingByLower(rest) ]_vars

\* C10 witness: a remove under another casing took one record out of a group
\* that keeps two.
C10_Witness ==
    /\ last.op = "remove"
    /\ last.outcome.removed
    /\ last.app # last.outcome.app_key
    /\ Len(TableOf(document, last.outcome.group)) = 2

\* C8: the content of a group does not depend on insertion order: whenever the
\* two runs have added the same set of records (keys distinct under case
\* folding) to the same group, in whatever orders, the group holds the same
\* sequence of records in both documents.
C8_InsertionOrderIndependent ==
    (last.op = "perm" /\ pending[1] = pending[2]) =>
        \A name \in GroupNames(document) \cup GroupNames(other) :
            lower(name) = lower(strip(last.group)) =>
                TableOf(document, name) = TableOf(other, name)

\* C8 witness: both runs added all three records, in different orders.
C8_Witness ==
    /\ last.op = "perm"
    /\ pending = <<{}, {}>>
    /\ Len(last.orderA) = 3
    /\ last.orderA # last.orderB
    /\ \E name \in GroupNames(document) : Len(TableOf(document, name)) = 3

\* the events of the last command that ran an installer's install or
\* uninstall command
InstallerEvents == { i \in 1..Len(last.events) : last.events[i].ev \in { "install", "uninstall" } }

SaveEvents == { i \in 1..Len(last.events) : last.events[i].ev = "save" }

\* the record stored under exactly this key in this group
HasRecord(doc, g, k) ==
    \E p \in Positions(doc) : doc[p[1]].name = g /\ doc[p[1]].table[p[2]].key = k

\* C1: an add without --no-install whose install phase fails leaves the content
\* of the manifest file as it was before the command and never calls save; when
\* save is called, it is called once, after every installer command of the
\* install phase, by a command that succeeds.
C1_AddRollback ==
    (pc = "done" /\ last.op = "add" /\ ~last.no_install) =>
        /\ last.stage = "install" =>
             /\ last.result = "error"
             /\ apps_file.doc = last.fileBefore.doc
             /\ last.fileBefore.exists => apps_file = last.fileBefore
             /\ SaveEvents = {}
        /\ \A i \in SaveEvents :
             /\ i = Len(last.events)
             /\ last.result = "ok"
             /\ \A j \in InstallerEvents : j < i /\ last.events[j].ok

\* C1 witness: the source of a stored entry changed, the previous source's
\* uninstall ran, the new source's install failed, and the manifest lists the
\* entry as before.
C1_Witness ==
    /\ pc = "done"
    /\ last.op = "add"
    /\ last.stage = "install"
    /\ last.outcome.previous_source \notin { NoSource, last.source }
    /\ \E i, j \in InstallerEvents :
         /\ i < j
         /\ last.events[i].ev = "uninstall" /\ last.events[i].ok
         /\ last.events[j].ev = "install" /\ ~last.events[j].ok
    /\ document # apps_file.doc

\* the manifest and the machine agree about app: it is declared with source s
\* exactly when the installer of s reports it as installed
InManifest(doc, app, s) ==
    \E p \in Positions(doc) :
        /\ FoldedKeyAt(doc, p) = lower(app)
        /\ doc[p[1]].table[p[2]].value = s

OnMachine(inst, app, s) ==
    \E e \in inst[s] : lower(e[1]) = lower(app) \/ lower(e[2]) = lower(app)

Agree(doc, inst, app) ==
    \A s \in SourceNames : InManifest(doc, app, s) <=> OnMachine(inst, app, s)

\* C2: a failed add (without --no-install) does not make the manifest and the
\* machine diverge: if they agreed about the app before the command, then after
\* it the persisted entry and the installed package are both present or both
\* absent, for every source.
C2_NoDivergenceOnFailedAdd ==
    ( /\ pc = "done" /\ last.op = "add" /\ ~last.no_install
      /\ last.result = "error"
      /\ Agree(last.fileBefore.doc, last.installedBefore, last.app) )
    => Agree(apps_file.doc, installed, last.app)

\* C3: a remove of an app that is in the manifest saves the manifest without
\* the record before it runs any installer command, and the file on disk lacks
\* the record whatever the uninstall does afterwards.
C3_RemovePersistsBeforeUninstall ==
    (pc = "done" /\ last.op = "remove" /\ last.outcome.removed) =>
        /\ SaveEvents = {1}
        /\ \A j \in 1..Len(last.events) : last.events[j].ev # "save" => j > 1
        /\ HasRecord(last.fileBefore.doc, last.outcome.group, last.outcome.app_key)
        /\ ~HasRecord(apps_file.doc, last.outcome.group, last.outcome.app_key)
        /\ apps_file = [exists |-> TRUE, doc |-> document]

\* C3 witness: the uninstall command of the removed app failed and the record
\* is gone from the file.
C3_Witness ==
    /\ pc = "done"
    /\ last.op = "remove"
    /\ last.outcome.removed
    /\ \E j \in InstallerEvents : last.events[j].ev = "uninstall" /\ ~last.events[j].ok
    /\ apps_file # last.fileBefore

\* the groups a command mutated: the target group of an add, the group a record
\* was moved or removed from
MutatedGroups ==
    IF last.op = "add" THEN { last.outcome.group, last.outcome.moved_from }
    ELSE IF last.op = "remove" THEN { last.outcome.group }
    ELSE {}

\* C7 as stated: in every manifest written by a command every group, mutated or
\* not, is in ascending case-insensitive key order.
C7_EveryWrittenGroupSorted ==
    (pc = "done" /\ SaveEvents # {}) =>
        \A i \in 1..Len(apps_file.doc) : AscendingByLower(apps_file.doc[i].table)

\* C7 amended: in every manifest written by a command, every group the command
\* mutated is in ascending case-insensitive key order, and every other group is
\* written with the records and the order it had in the file before, so it is
\* sorted if it was sorted before.
C7_MutatedGroupsSorted ==
    (pc = "done" /\ SaveEvents # {}) =>
        \A i \in 1..Len(apps_file.doc) :
            LET g == apps_file.doc[i].name
            IN IF g \in MutatedGroups
               THEN AscendingByLower(apps_file.doc[i].table)
               ELSE /\ g \in GroupNames(last.fileBefore.doc)
                    /\ apps_file.doc[i].table = TableOf(last.fileBefore.doc, g)

\* C7 witness: an add wrote a manifest in which its target group holds "a"
\* before "B" and another group is left as it was.
C7_Witness ==
    /\ pc = "done"
    /\ last.op = "add"
    /\ SaveEvents # {}
    /\ Len(apps_file.doc) = 2
    /\ LET table == TableOf(apps_file.doc, last.outcome.group)
       IN /\ Len(table) = 2
          /\ table[1].key = <<97>>
          /\ table[2].key = <<66>>
          /\ last.outcome.app_key = <<97>>

\* the folded keys of a document and where they occur
FoldedKeys(doc) == { FoldedKeyAt(doc, p) : p \in Positions(doc) }
GroupsOf(doc, n) == { doc[p[1]].name : p \in { q \in Positions(doc) : FoldedKeyAt(doc, q) = n } }
SpellingsOf(doc, n) ==
    { doc[p[1]].table[p[2]].key : p \in { q \in Positions(doc) : FoldedKeyAt(doc, q) = n } }

\* C5: when some folded key occurs in two or more groups, load fails, its error
\* has one line per such key with every spelling of the key and every group it
\* occurs in, and the file is left as it was; when every folded key occurs
\* once, load returns the document of the file.
C5_DuplicateKeysRejected ==
    (pc = "done" /\ last.op = "list" /\ last.fileBefore.exists) =>
        LET doc == last.fileBefore.doc
            offending == { n \in FoldedKeys(doc) : Cardinality(GroupsOf(doc, n)) >= 2 }
        IN /\ offending # {} =>
                /\ last.result = "error"
                /\ last.outcome = { [norm |-> n, keys |-> SpellingsOf(doc, n),
                                     groups |-> GroupsOf(doc, n)] : n \in offending }
                /\ apps_file = last.fileBefore
           /\ UniqueFoldedKeys(doc) =>
                /\ last.result = "ok"
                /\ document = doc
                /\ apps_file = last.fileBefore

\* C5 witness: the error names a key that occurs in three groups, and a second
\* offending key.
C5_Witness ==
    /\ pc = "done"
    /\ last.op = "list"
    /\ last.result = "error"
    /\ Cardinality(last.outcome) = 2
    /\ \E line \in last.outcome :
         Cardinality(line.groups) = 3 /\ Cardinality(line.keys) = 2

\* C6: whenever load returns a document, no two records of that document have
\* the same case-folded key, also when they sit in the same group.
C6_LoadedDocumentHasUniqueKeys ==
    (pc = "done" /\ last.op = "list" /\ last.result = "ok") => UniqueFoldedKeys(document)

\* the group an add with this group argument is to end up in: the existing group
\* whose name equals the trimmed argument case-insensitively, else the trimmed
\* argument
ExpectedTarget(doc, group) ==
    IF \E n \in GroupNames(doc) : lower(n) = lower(strip(group))
    THEN CHOOSE n \in GroupNames(doc) : lower(n) = lower(strip(group))
    ELSE strip(group)

C12_IdempotentAdd ==
    [][ (last'.op = "add_or_update" /\ last'.repeat) =>
            /\ last'.err = ""
            /\ last'.outcome.existed
            /\ last'.outcome.moved_from = NoneStr
            /\ document' = document ]_vars

\* C12 witness: the repeated call names the record under another casing and
\* the group with a leading blank, and the stored description is the joined
\* two-line description.
C12_Witness ==
    /\ last.op = "add_or_update"
    /\ last.repeat
    /\ last.app # last.outcome.app_key
    /\ last.group # last.outcome.group
    /\ Len(document) = 2
    /\ \E p \in Positions(document) :
         /\ document[p[1]].table[p[2]].key = last.outcome.app_key
         /\ document[p[1]].table[p[2]].comment = "x y"

-----------------------------------------------------------------------------
(* Vocabulary of the sync properties *)

ProviderOf(source) == IF source \in { "cask", "formula" } THEN "brew" ELSE source

\* the part of a key after its last "/"
AfterLastSlash(key) ==
    LET slashes == { i \in 1..Len(key) : key[i] = 47 }
        from == IF slashes = {} THEN 0 ELSE CHOOSE i \in slashes : \A j \in slashes : j <= i
    IN SubSeq(key, from + 1, Len(key))

\* the names under which a source's installer may know a declared key
Aliases(source, key) ==
    IF ProviderOf(source) = "brew" THEN { key, AfterLastSlash(key) } ELSE { key }

\* the items that the installer of a source reports to find_unmanaged: the
\* leaves for formula, the listing for every other source
Reported(inst, source) == IF source = "formula" THEN inst[Leaves] ELSE inst[source]

\* the installer lists the app, by identifier or by name, under one of its
\* aliases, case-insensitively
ReportsInstalled(inst, source, app) ==
    \E e \in inst[source], alias \in Aliases(source, app) :
        lower(alias) = lower(e[1]) \/ lower(alias) = lower(e[2])

\* the records of a document as <<source, key>>, group by group
RECURSIVE RecordsInOrder(_)
RecordsInOrder(doc) ==
    IF doc = <<>> THEN <<>>
    ELSE [j \in 1..Len(Head(doc).table) |->
            << Head(doc).table[j].value, Head(doc).table[j].key >>]
         \o RecordsInOrder(Tail(doc))

\* the managed set of a provider: the aliases of the records whose source is an
\* enabled source of the provider
ManagedOf(doc, provider, enabled) ==
    LET recs == RecordsInOrder(doc)
    IN UNION { Aliases(recs[i][1], recs[i][2])
               : i \in { j \in 1..Len(recs) :
                           recs[j][1] \in enabled /\ ProviderOf(recs[j][1]) = provider } }

\* a sync run that got past load
SyncRan == pc = "done" /\ last.op = "sync" /\ last.stage # "load"

EventIndexes(kinds) == { i \in 1..Len(last.events) : last.events[i].ev \in kinds }

PhaseIndexes(name) ==
    { i \in 1..Len(last.events) : last.events[i].ev = "phase" /\ last.events[i].source = name }

\* the <<source, app>> of the events of a kind, in order
CallsOf(kind) ==
    LET es == SelectSeq(last.events, LAMBDA e : e.ev = kind)
    IN [i \in 1..Len(es) |-> << es[i].source, es[i].app >>]

IsPrefix(s, t) == Len(s) <= Len(t) /\ s = SubSeq(t, 1, Len(s))

\* the events of a command that exited non-zero or could not be run
FailedCommands ==
    { i \in EventIndexes({ "list", "install", "info", "find_unmanaged",
                           "uninstall_unmanaged", "upgrade_all" }) : ~last.events[i].ok }

\* C13: a sync in which the only commands that fail are installs of declared
\* apps or uninstalls of unmanaged apps still calls ensure_installed for every
\* declared record of an enabled source, still reports on every enabled
\* provider and still runs the upgrade phase.
C13_SyncNeverHaltsOnOneFailure ==
    ( /\ SyncRan
      /\ last.yes
      /\ FailedCommands # {}
      /\ FailedCommands \subseteq EventIndexes({ "install", "uninstall_unmanaged" }) )
    => /\ CallsOf("ensure_installed")
            = SelectSeq(RecordsInOrder(last.fileBefore.doc), LAMBDA r : r[1] \in last.enabled)
       /\ { last.outcome[i].provider : i \in 1..Len(last.outcome) }
            = { ProviderOf(s) : s \in last.enabled }
       /\ PhaseIndexes("upgrade") # {}

C17_UnmanagedDetection ==
    SyncRan =>
        \A k \in 1..Len(last.outcome) :
            LET r == last.outcome[k]
                managed == ManagedOf(last.fileBefore.doc, r.provider, last.enabled)
                found == { << r.unmanaged[i].source, r.unmanaged[i].identifier >>
                           : i \in 1..Len(r.unmanaged) }
            IN /\ r.managed = managed
               /\ Cardinality(found) = Len(r.unmanaged)
               /\ found = { x \in UNION { { << s, e[1] >> : e \in Reported(last.installedBefore, s) }
                                          : s \in { t \in last.enabled :
                                                      ProviderOf(t) = r.provider } } :
                              lower(x[2]) \notin { lower(m) : m \in managed } }

\* C17 witness: the cask installer lists "a" and "z", the manifest declares
\* "A" as a cask, and the run reports exactly "z" for brew.
C17_Witness ==
    /\ SyncRan
    /\ last.installedBefore["cask"] = { << <<97>>, <<97>> >>, << <<122>>, <<122>> >> }
    /\ \E k \in 1..Len(last.outcome) :
         /\ last.outcome[k].provider = "brew"
         /\ last.outcome[k].managed = { <<65>> }
         /\ Len(last.outcome[k].unmanaged) = 1
         /\ last.outcome[k].unmanaged[1].identifier = <<122>>

TargetHolds(doc, inst, enabled) ==
    LET recs == RecordsInOrder(doc)
    IN /\ \A i \in 1..Len(recs) :
            recs[i][1] \in enabled => ReportsInstalled(inst, recs[i][1], recs[i][2])
       /\ \A s \in enabled : \A e \in Reported(inst, s) :
            lower(e[1]) \in { lower(m) : m \in ManagedOf(doc, ProviderOf(s), enabled) }

C19_EnsureIdempotent ==
    (pc = "done" /\ last.op \in { "ensure_installed", "ensure_uninstalled" }) =>
        LET listed == last.events[1].ev = "list" /\ last.events[1].ok
            shown == ReportsInstalled(last.installedBefore, last.source, last.app)
        IN ( /\ listed
             /\ (last.op = "ensure_installed") <=> shown )
           => /\ ~last.raised
              /\ last.result.success
              /\ last.result.skipped
              /\ EventIndexes({ "install", "uninstall" }) = {}
              /\ installed = last.installedBefore

\* C19 witness: ensure_installed("A") on the mas strategy was skipped because
\* the app with id "9" is named "a".
C19_Witness ==
    /\ pc = "done"
    /\ last.op = "ensure_installed"
    /\ last.source = "mas"
    /\ last.app = <<65>>
    /\ last.installedBefore["mas"] = { << <<57>>, <<97>> >> }
    /\ last.result.skipped

\* C19 witness of the other half: ensure_uninstalled("t/b") on the formula
\* strategy was skipped while brew lists other formulae.
C19_WitnessUninstalled ==
    /\ pc = "done"
    /\ last.op = "ensure_uninstalled"
    /\ last.source = "formula"
    /\ last.app = <<116, 47, 98>>
    /\ last.installedBefore["formula"] # {}
    /\ last.result.skipped

\* the declared record was skipped by the platform check of its strategy
PlatformSkipped(source, key) ==
    /\ source = "formula"
    /\ \E i \in EventIndexes({ "skipped" }) :
         last.events[i].source = source /\ last.events[i].app = key

\* the installed state matches the manifest for the enabled sources
Converged(doc, inst, enabled) ==
    LET recs == RecordsInOrder(doc)
    IN /\ \A i \in 1..Len(recs) :
            recs[i][1] \in enabled =>
                \/ ReportsInstalled(inst, recs[i][1], recs[i][2])
                \/ PlatformSkipped(recs[i][1], recs[i][2])
       /\ \A s \in enabled : \A e \in Reported(inst, s) :
            lower(e[1]) \in { lower(m) : m \in ManagedOf(doc, ProviderOf(s), enabled) }

\* C21: a sync run with --yes in which no command fails completes, and when
\* it has completed every declared record of an enabled source is installed
\* or was skipped by the platform check, and every item that the installer of
\* an enabled source reports is declared for its provider.
C21_Convergence ==
    (SyncRan /\ last.yes /\ FailedCommands = {}) =>
        /\ last.result = "ok"
        /\ Converged(last.fileBefore.doc, installed, last.enabled)

-----------------------------------------------------------------------------
(* Vocabulary of the facade properties *)

\* an add without --no-install that got to its install phase
InstallPhaseRan ==
    /\ pc = "done"
    /\ last.op = "add"
    /\ ~last.no_install
    /\ last.stage \in { "install", "end" }

\* the record that the manifest held for the app before the command
StoredRecord == find_app(last.fileBefore.doc, last.app)

\* the key of the entry: the stored one, or the argument for a new entry
StoredKey == IF StoredRecord.found THEN StoredRecord.key ELSE last.app

SourceChanged == StoredRecord.found /\ StoredRecord.source # last.source

\* the strategy operations of a facade run as <<source, app>>, in order (each
\* ensure_installed and ensure_uninstalled begins with one listing)
StrategyCalls == CallsOf("list")

C23_NoInstallOnlyUpdatesManifest ==
    (pc = "done" /\ last.op \in { "add", "remove" } /\ last.no_install) =>
        /\ EventIndexes({ "list", "install", "uninstall" }) = {}
        /\ installed = last.installedBefore
        /\ (last.op = "add" /\ last.result = "ok") =>
             /\ last.events = << SaveEvent >>
             /\ apps_file = [exists |-> TRUE, doc |-> document]
             /\ \E p \in Positions(apps_file.doc) :
                  /\ apps_file.doc[p[1]].name = last.outcome.group
                  /\ apps_file.doc[p[1]].table[p[2]].key = StoredKey
                  /\ apps_file.doc[p[1]].table[p[2]].value = last.source
        /\ (last.op = "remove" /\ last.outcome.removed) =>
             /\ last.result = "ok"
             /\ last.events = << SaveEvent >>
             /\ apps_file = [exists |-> TRUE, doc |-> document]
             /\ HasRecord(last.fileBefore.doc, last.outcome.group, last.outcome.app_key)
             /\ ~HasRecord(apps_file.doc, last.outcome.group, last.outcome.app_key)

\* C23 witness: an add with --no-install changed the source of an entry whose
\* app is installed through the stored source; the manifest was saved with the
\* new source and the app is still installed through the old one.
C23_Witness ==
    /\ pc = "done"
    /\ last.op = "add"
    /\ last.no_install
    /\ last.result = "ok"
    /\ SourceChanged
    /\ OnMachine(installed, StoredKey, StoredRecord.source)
    /\ InManifest(apps_file.doc, StoredKey, last.source)
    /\ ~InManifest(apps_file.doc, StoredKey, StoredRecord.source)

\* C23 witness of the remove: a remove with --no-install deleted the record
\* of an installed app and the app is still installed.
C23_WitnessRemove ==
    /\ pc = "done"
    /\ last.op = "remove"
    /\ last.no_install
    /\ last.outcome.removed
    /\ OnMachine(installed, last.outcome.app_key, last.outcome.source)

\* C24: an add that fails at load, at the group, at the description or in
\* add_or_update ends in an error with the manifest file holding what it held
\* before, with no save and no listing, install or uninstall of any strategy,
\* and with the machine as it was; it fails at load on a malformed file, at
\* the group at the latest on a blank --group or on a missing --group without
\* a terminal, and at the description at the latest on a uv app without one.
C24_ErrorsAbortWithoutMutation ==
    (pc = "done" /\ last.op = "add") =>
        /\ last.stage \in { "load", "group", "description", "repository" } =>
             /\ last.result = "error"
             /\ apps_file.doc = last.fileBefore.doc
             /\ last.fileBefore.exists => apps_file = last.fileBefore
             /\ EventIndexes({ "save", "list", "install", "uninstall" }) = {}
             /\ installed = last.installedBefore
        /\ "malformed" \in DOMAIN last.fileBefore => last.stage = "load"
        /\ (last.group = <<>> /\ ~last.stdin.isatty) => last.stage \in { "load", "group" }
        /\ (last.group # <<>> /\ strip(last.group) = <<>>) => last.stage \in { "load", "group" }
        /\ (last.source = "uv" /\ last.description = <<>>) =>
             last.stage \in { "load", "group", "description" }

\* C24 witness: add_or_update raised on a section name that is a top-level
\* key after it had taken the record out of its old group in memory; the file
\* still holds the record.
C24_Witness ==
    /\ pc = "done"
    /\ last.op = "add"
    /\ last.stage = "repository"
    /\ document # apps_file.doc
    /\ apps_file = last.fileBefore

\* C24 witnesses of the other causes: a malformed file, a duplicate key, no
\* terminal, no description
C24_WitnessParse ==
    /\ pc = "done" /\ last.op = "add" /\ last.stage = "load"
    /\ "malformed" \in DOMAIN apps_file

C24_WitnessDuplicate ==
    /\ pc = "done" /\ last.op = "add" /\ last.stage = "load"
    /\ "malformed" \notin DOMAIN apps_file

C24_WitnessNoTerminal ==
    /\ pc = "done" /\ last.op = "add" /\ last.stage = "group"
    /\ last.group = <<>> /\ ~last.stdin.isatty
    /\ apps_file.doc # <<>>

C24_WitnessDescription ==
    /\ pc = "done" /\ last.op = "add" /\ last.stage = "description"
    /\ last.source = "cask"
    /\ Len(last.events) = 2

\* C25: whatever the strategy, an uninstall whose command exits non-zero
\* comes back from ensure_uninstalled as a failed result and not as a raised
\* error.
C25_FailingUninstallIsTypedResult ==
    ( /\ pc = "done"
      /\ last.op = "ensure_uninstalled"
      /\ \E i \in EventIndexes({ "uninstall" }) : ~last.events[i].ok )
    => /\ ~last.raised
       /\ ~last.result.success

\* C26: a sync of several sources in which the only commands that fail are
\* listings of one source (its list command exits non-zero or its executable
\* is missing)
\* still completes, still calls ensure_installed for every declared record of
\* an enabled source, still reports on every enabled provider and still runs
\* the upgrade phase.
C26_BrokenInstallerDoesNotAbortSync ==
    ( /\ SyncRan
      /\ FailedCommands # {}
      /\ FailedCommands \subseteq EventIndexes({ "list", "find_unmanaged" })
      /\ \E s \in last.enabled :
           /\ last.enabled # { s }
           /\ \A i \in FailedCommands : last.events[i].source = s )
    => /\ last.result = "ok"
       /\ CallsOf("ensure_installed")
            = SelectSeq(RecordsInOrder(last.fileBefore.doc), LAMBDA r : r[1] \in last.enabled)
       /\ { last.outcome[i].provider : i \in 1..Len(last.outcome) }
            = { ProviderOf(s) : s \in last.enabled }
       /\ PhaseIndexes("upgrade") # {}

\* C27: the registry never holds two classes under one source name;
\* registering a class whose name is already registered raises and leaves the
\* registry as it was, registering one with a new name adds it; create raises
\* exactly for the names that are not registered and otherwise makes the
\* registered class; the names are never outside cask, formula, uv and mas,
\* and they are exactly these four once the module is imported.
C27_RegistryClosed ==
    /\ \A i, j \in 1..Len(service_classes) :
         service_classes[i].source_name = service_classes[j].source_name => i = j
    /\ last.op = "register" =>
         IF last.cls.source_name \in source_names(last.before)
         THEN last.raised /\ service_classes = last.before
         ELSE /\ ~last.raised
              /\ source_names(service_classes)
                   = source_names(last.before) \cup ({ last.cls.source_name } \ { "" })
    /\ last.op = "create" =>
         /\ last.raised <=> last.source \notin { "cask", "formula", "uv", "mas" }
                               \cap source_names(service_classes)
         /\ ~last.raised =>
              \E i \in 1..Len(service_classes) :
                  service_classes[i] = ServiceClass(last.cls, last.source)
    /\ source_names(service_classes) \subseteq { "cask", "formula", "uv", "mas" }
    /\ source_names(Registered) = { "cask", "formula", "uv", "mas" }
    /\ Len(Registered) = 4
    /\ SourceNames = source_names(Registered)

\* C27 witness: the module's classes were defined in the module's order, then
\* a second class naming "uv" was refused and the registry still holds
\* UvSourceService.
C27_Witness ==
    /\ last.op = "register"
    /\ last.raised
    /\ last.cls = ServiceClass("AnotherUv", "uv")
    /\ service_classes = Registered

\* C27 witness of create: an unknown source was refused by the full registry
C27_WitnessCreate ==
    /\ last.op = "create"
    /\ last.raised
    /\ last.source = "unknown"
    /\ service_classes = Registered

\* C28: every add_or_update resolves its group argument as follows: a name
\* that trims to nothing is refused and the document stays as it is; a name
\* that, trimmed, equals an existing group name up to case yields that
\* existing name; any other name yields the trimmed name itself; the record
\* goes to the group so named, and no two groups of the document ever differ
\* only by case.
C28_ResolveGroupName ==
    [][ last'.op = "add_or_update" =>
          LET trimmed == strip(last'.group)
              existing == { g \in GroupNames(document) : lower(g) = lower(trimmed) }
          IN /\ trimmed = <<>> => (last'.err # "" /\ document' = document)
             /\ trimmed # <<>> =>
                  /\ last'.err = ""
                  /\ IF existing # {} THEN last'.outcome.group \in existing
                     ELSE last'.outcome.group = trimmed
                  /\ HasRecord(document', last'.outcome.group, last'.outcome.app_key)
             /\ \A g, h \in GroupNames(document') : lower(g) = lower(h) => g = h
      ]_vars

\* C28 witness: an add to the group "D" went to the existing group "d", which
\* is the only group of the document.
C28_Witness ==
    /\ last.op = "add_or_update"
    /\ last.err = ""
    /\ last.group = <<68>>
    /\ last.outcome.group = <<100>>
    /\ ~last.outcome.existed
    /\ GroupNames(document) = { <<100>> }

\* C29: when standard input is no terminal, an add without --group and a
\* sync without --yes that finds unmanaged apps both end in an error without
\* having called input(), without an uninstall and without a save.
C29_PromptsFailFastWithoutTerminal ==
    (pc = "done" /\ ~last.stdin.isatty) =>
        /\ (last.op = "add" /\ last.group = <<>> /\ last.stage # "load") =>
             /\ last.result = "error"
             /\ last.stage = "group"
             /\ EventIndexes({ "input", "save", "uninstall" }) = {}
             /\ apps_file.doc = last.fileBefore.doc
        /\ ( /\ last.op = "sync"
             /\ ~last.yes
             /\ \E k \in 1..Len(last.outcome) : last.outcome[k].unmanaged # <<>> ) =>
             /\ last.result = "error"
             /\ \A k \in 1..Len(last.outcome) : last.outcome[k].answer = "none"
             /\ EventIndexes({ "prompt", "uninstall_unmanaged", "save" }) = {}
             /\ installed = last.installedBefore

\* C30: a remove of an app that the loaded manifest holds under no casing
\* returns normally with nothing removed, calls neither save nor any strategy
\* and leaves the manifest and the machine as they were; a remove of an app
\* that the manifest holds does remove it.
C30_RemoveAbsentIsNoError ==
    (pc = "done" /\ last.op = "remove" /\ last.stage # "load") =>
        LET held == \E p \in Positions(last.fileBefore.doc) :
                        FoldedKeyAt(last.fileBefore.doc, p) = lower(last.app)
        IN /\ last.outcome.removed <=> held
           /\ ~held =>
                /\ last.result = "ok"
                /\ last.events = <<>>
                /\ apps_file.doc = last.fileBefore.doc
                /\ last.fileBefore.exists => apps_file = last.fileBefore
                /\ installed = last.installedBefore

\* C30 witness: a remove without --no-install asked for an app that a
\* manifest with records does not hold, while apps are installed.
C30_Witness ==
    /\ pc = "done"
    /\ last.op = "remove"
    /\ ~last.no_install
    /\ ~last.outcome.removed
    /\ last.result = "ok"
    /\ Positions(apps_file.doc) # {}
    /\ installed # NothingInstalled


-----------------------------------------------------------------------------
(* Properties of load, of the outcome of add_or_update and of the sections  *)
(* that an operation leaves alone                                           *)

EmptyFile == [exists |-> TRUE, doc |-> <<>>]

\* C31: load on an absent manifest is not an error: it creates the file as an
\* empty document and returns a document without groups; a later load of that
\* file, nothing having changed it in between, is no error either, returns the
\* same empty document and leaves the file as it is.
C31_LoadCreatesEmptyManifest ==
    /\ (pc = "done" /\ last.op = "list" /\ ~last.fileBefore.exists) =>
          /\ last.result = "ok"
          /\ document = <<>>
          /\ apps_file = EmptyFile
    /\ (pc = "again" /\ ~last.first.fileBefore.exists) =>
          /\ last.result = "ok"
          /\ last.fileBefore = EmptyFile
          /\ document = <<>>
          /\ apps_file = EmptyFile

\* C31 witness: the second list of a manifest that was absent before the first.
C31_Witness ==
    /\ pc = "again"
    /\ ~last.first.fileBefore.exists
    /\ last.first.result = "ok"
    /\ last.fileBefore.exists
    /\ last.result = "ok"


\* C32: the outcome of a successful add_or_update carries a previous source
\* exactly when a record with the same folded key was stored before the call
\* with a source other than the one passed in; a create, and an update or a
\* move that keeps the source, carry none.
C32_PreviousSourceIffSourceChanged ==
    [][ (last'.op = "add_or_update" /\ last'.err = "") =>
          LET stored == { p \in Positions(document) :
                            FoldedKeyAt(document, p) = lower(last'.app) }
              changed == \E p \in stored :
                            document[p[1]].table[p[2]].value # last'.source
          IN (last'.outcome.previous_source # NoSource) <=> changed ]_vars


\* C35: a successful add_or_update is exactly one of a create, an in-place
\* update and a cross-group move: moved_from is set, to the old group, iff the
\* folded key was stored in a group other than the resolved target group;
\* existed is true iff it was stored in the target group; a create reports
\* existed false and no moved_from; a move reports existed false, moved_from
\* and the source the record had.
C35_CreateUpdateOrMove ==
    [][ (last'.op = "add_or_update" /\ last'.err = "") =>
          LET stored == { p \in Positions(document) :
                            FoldedKeyAt(document, p) = lower(last'.app) }
              target == ExpectedTarget(document, last'.group)
              elsewhere == { p \in stored : document[p[1]].name # target }
              here == { p \in stored : document[p[1]].name = target }
              o == last'.outcome
          IN /\ (o.moved_from # NoneStr) <=> (elsewhere # {})
             /\ \A p \in elsewhere :
                  /\ o.moved_from = document[p[1]].name
                  /\ o.previous_source = document[p[1]].table[p[2]].value
             /\ o.existed <=> (here # {})
             /\ stored = {} => (~o.existed /\ o.moved_from = NoneStr)
             /\ ~(o.existed /\ o.moved_from # NoneStr) ]_vars

\* C35 witness: a record was moved to a group that already held another one.
C35_Witness ==
    /\ last.op = "add_or_update"
    /\ last.err = ""
    /\ ~last.outcome.existed
    /\ last.outcome.moved_from # NoneStr
    /\ last.outcome.previous_source # NoSource
    /\ Len(TableOf(document, last.outcome.group)) = 2

\* C35 witness of an in-place update: the key was written in another casing.
C35_WitnessUpdate ==
    /\ last.op = "add_or_update"
    /\ last.err = ""
    /\ last.outcome.existed
    /\ last.outcome.moved_from = NoneStr
    /\ last.outcome.app_key # last.app

\* C35 witness of a create next to other records.
C35_WitnessCreate ==
    /\ last.op = "add_or_update"
    /\ last.err = ""
    /\ ~last.outcome.existed
    /\ last.outcome.moved_from = NoneStr
    /\ last.outcome.previous_source = NoSource
    /\ Len(document) = 2

\* C38: add_or_update and remove leave every group alone but the target group
\* and the group that held the key: each other group keeps its records, their
\* order, sources and descriptions; the groups that are in the document before
\* and after the call keep their relative order; and no group appears but the
\* target group.
C38_UntouchedSectionsKept ==
    [][ (last'.op \in { "add_or_update", "remove" }) =>
          \A touched \in
               { { document[p[1]].name :
                     p \in { q \in Positions(document) :
                               FoldedKeyAt(document, q) = lower(last'.app) } }
                 \cup ( IF last'.op = "add_or_update"
                        THEN { ExpectedTarget(document, last'.group) }
                        ELSE {} ) } :
             /\ \A i \in 1..Len(document) :
                  document[i].name \notin touched =>
                      \E j \in 1..Len(document') : document'[j] = document[i]
             /\ \A i, k \in 1..Len(document) :
                  i < k =>
                     \A j, l \in 1..Len(document') :
                        ( document'[j].name = document[i].name
                          /\ document'[l].name = document[k].name ) => j < l
             /\ \A j \in 1..Len(document') :
                  document'[j].name \notin GroupNames(document) =>
                      document'[j].name \in touched ]_vars

\* C38 witness: a record was moved between two groups that both survive,
\* after the untouched section [e].
C38_Witness ==
    /\ last.op = "add_or_update"
    /\ last.err = ""
    /\ last.outcome.moved_from \in GroupNames(document)
    /\ Len(document) = 3
    /\ document[1].name = <<101>>
    /\ Len(document[1].table) = 1

\* C38 witness of a remove that deleted the first of two groups after [e].
C38_WitnessRemove ==
    /\ last.op = "remove"
    /\ last.outcome.removed
    /\ last.outcome.group \notin GroupNames(document)
    /\ Len(document) = 2
    /\ document[1].name = <<101>>
    /\ StrLess(document[2].name, last.outcome.group)

-----------------------------------------------------------------------------
(* Properties of one strategy call *)

\* C36: when the listing does not show the app and pre_install_check returns a
\* result, ensure_installed returns that result, which is a successful skipped
\* one, without running install and leaves the machine as it was; when the
\* listing shows the app, pre_install_check is not consulted; and
\* ensure_installed never returns a failed result.
C36_PreInstallCheckSkipsInstall ==
    (pc = "done" /\ last.op = "ensure_installed") =>
        LET listed == last.events # <<>> /\ last.events[1].ev = "list" /\ last.events[1].ok
            shown == ReportsInstalled(last.installedBefore, last.source, last.app)
        IN /\ (listed /\ ~shown) =>
                /\ last.preflight.consulted
                /\ ~last.preflight.none =>
                     /\ ~last.raised
                     /\ last.result = last.preflight.result
                     /\ last.result.success
                     /\ last.result.skipped
                     /\ EventIndexes({ "install" }) = {}
                     /\ installed = last.installedBefore
           /\ (listed /\ shown) => ~last.preflight.consulted
           /\ ~listed => ~last.preflight.consulted
           /\ ~last.raised => last.result.success

\* C36 witness: the formula strategy skipped the install of "t/b", which brew
\* does not list, on the word of its pre-install check.
C36_Witness ==
    /\ pc = "done"
    /\ last.op = "ensure_installed"
    /\ last.source = "formula"
    /\ last.app = <<116, 47, 98>>
    /\ last.preflight.consulted
    /\ ~last.preflight.none
    /\ last.result.skipped
    /\ last.installedBefore["formula"] # {}
    /\ installed = last.installedBefore

\* C36 witness of the other half: the app is installed and the check was not
\* consulted.
C36_WitnessInstalled ==
    /\ pc = "done"
    /\ last.op = "ensure_installed"
    /\ last.source = "formula"
    /\ ~last.raised
    /\ ~last.preflight.consulted
    /\ last.result.skipped


-----------------------------------------------------------------------------
(* Properties of the calls on one strategy instance *)

\* C33: once list_installed has returned a listing to an instance, no later
\* is_installed call on that instance, for the same or for another app, runs
\* the installer's list query again.
C33_ListQueryAtMostOnce ==
    (last.op = "is_installed" /\ last.instance.queried) => EventIndexes({ "list" }) = {}

\* C34: an ensure_installed(app) that follows an ensure_installed(app) which
\* installed the app on the same instance returns a skipped result and runs
\* neither install nor the list query; likewise an ensure_uninstalled(app)
\* that follows an ensure_uninstalled(app) which uninstalled the app runs
\* neither uninstall nor the list query and returns a skipped result.
C34_CacheFollowsOwnOperations ==
    ( /\ last.op \in { "ensure_installed", "ensure_uninstalled" }
      /\ last.previous.op = last.op
      /\ last.previous.app = last.app
      /\ last.previous.performed )
    => /\ ~last.raised
       /\ last.result.success
       /\ last.result.skipped
       /\ EventIndexes({ "install", "uninstall", "list" }) = {}

\* C37: away from macOS, once the formula strategy has been primed with the
\* declared formulae, a pre_install_check of one of them on that instance runs
\* no metadata query, whatever the batched lookup returned.
C37_PrimedCheckAsksNothing ==
    ( /\ last.op = "pre_install_check"
      /\ last.instance.system # "Darwin"
      /\ last.instance.primed.done
      /\ last.app \in Range(last.instance.primed.formulae) )
    => EventIndexes({ "info" }) = {}


-----------------------------------------------------------------------------
(* Properties of a sync run and of the commands that read the manifest *)

\* C39: when a sync run skipped a declared record of an enabled source as
\* already installed, because an alias of its key is, under case folding, the
\* identifier or the name of an item that the installer lists, the run neither
\* reports that item as unmanaged nor uninstalls it.
C39_DeclaredAppNeverUninstalled ==
    SyncRan =>
        \A rec \in Range(RecordsInOrder(last.fileBefore.doc)) :
            ( /\ rec[1] \in last.enabled
              /\ \E i \in EventIndexes({ "skipped" }) :
                    last.events[i].source = rec[1] /\ last.events[i].app = rec[2] )
            => \A e \in last.installedBefore[rec[1]] :
                  ( { lower(e[1]), lower(e[2]) }
                      \cap { lower(a) : a \in Aliases(rec[1], rec[2]) } # {} )
                  => /\ \A k \in 1..Len(last.outcome) :
                          \A u \in Range(last.outcome[k].unmanaged) :
                              ~(u.source = rec[1] /\ u.identifier = e[1])
                     /\ \A i \in EventIndexes({ "uninstall_unmanaged" }) :
                          ~( last.events[i].source = rec[1]
                             /\ last.events[i].app = e[1] )


\* C40: sync, list and info never write the manifest: they call save not once
\* and leave a manifest file that existed as it was, whatever the installers
\* report and whatever sync installs, uninstalls or upgrades; add and remove
\* call save at most once, and without a save leave such a file as it was.
C40_ReadOnlyCommandsLeaveManifest ==
    (pc = "done" /\ last.op \in { "sync", "list", "info", "add", "remove" }) =>
        /\ last.op \in { "sync", "list", "info" } => EventIndexes({ "save" }) = {}
        /\ Cardinality(EventIndexes({ "save" })) <= 1
        /\ (EventIndexes({ "save" }) = {} /\ last.fileBefore.exists) =>
              apps_file = last.fileBefore

\* C40 witness: a sync run installed a declared app and left the file alone.
C40_Witness ==
    /\ pc = "done"
    /\ last.op = "sync"
    /\ last.result = "ok"
    /\ last.fileBefore.exists
    /\ apps_file = last.fileBefore
    /\ \E i \in EventIndexes({ "install" }) : last.events[i].ok
    /\ installed # last.installedBefore

\* C40 witness: a sync run uninstalled an unmanaged app.
C40_WitnessUninstall ==
    /\ pc = "done"
    /\ last.op = "sync"
    /\ last.fileBefore.exists
    /\ apps_file = last.fileBefore
    /\ \E i \in EventIndexes({ "uninstall_unmanaged" }) : last.events[i].ok

\* C40 witness: info printed what the installer reports on a declared app.
C40_WitnessInfo ==
    /\ pc = "done"
    /\ last.op = "info"
    /\ last.result = "ok"
    /\ last.fileBefore.exists
    /\ find_app(last.fileBefore.doc, last.app).found
    /\ apps_file = last.fileBefore

\* C40 witness: list rendered a manifest that declares an app.
C40_WitnessList ==
    /\ pc = "done"
    /\ last.op = "list"
    /\ last.result = "ok"
    /\ last.fileBefore.exists
    /\ list_records(last.fileBefore.doc) # <<>>
    /\ apps_file = last.fileBefore

\* C40 witness: a remove wrote the manifest once.
C40_WitnessRemove ==
    /\ pc = "done"
    /\ last.op = "remove"
    /\ Cardinality(EventIndexes({ "save" })) = 1
    /\ apps_file # last.fileBefore

====
